---- MODULE Spec2Model ----
(***************************************************************************)
(* Flight-search orchestrator (search.ts), Roame job poller                *)
(* (roame-scraper.ts) and SerpAPI usage limiter, modelled as state         *)
(* machines.                                                               *)
(*                                                                         *)
(*   Spec      one runSearch call on the Node event loop: synchronous      *)
(*             launch code, the microtask queue, network completions       *)
(*             (macrotasks) and the blocking execSync subprocess calls.    *)
(*   SpecPoll  pollResults with elapsed time in seconds.                   *)
(*   SpecRace  two OS processes running the SerpAPI adapter against the    *)
(*             same serpapi-usage.json.                                    *)
(***************************************************************************)
EXTENDS Integers, Sequences, FiniteSets, TLC

\* ------------------------------------------------------------------------
\* Bounds of the model
\* ------------------------------------------------------------------------
\* most records one provider call returns
MaxFares == 1

\* longest a status request of pollResults takes, in seconds
MaxLatency == 2
\* most fares a status response of pollResults lists
MaxPollFares == 1
\* most stops of a fare handed to the value engine
MaxStops == 1

\* ------------------------------------------------------------------------
\* Program constants
\* ------------------------------------------------------------------------
MONTHLY_LIMIT == 95
\* pollResults: maxWaitMs, the poll interval (both in seconds here) and the
\* number of no-progress polls that ends the polling
MaxWaitS == 90
PollIntervalS == 3
StaleLimit == 4
\* percentages a status response can carry
PollPcts == {0, 40, 100}
\* the two OS processes of SpecRace
Procs == {1, 2}

KnownSources == {"roame", "google", "hidden-city"}
SearchClasses == {"ECON", "PREM", "both"}
\* percentages a Roame job ends with (even, so that the two-class average is whole)
PctValues == {40, 100}
\* the month new Date() reports; month 0 stands for a usage file of an
\* earlier month, or one that is absent or unreadable
CurrentMonth == 1

VARIABLES
    config,         \* SearchConfig: sources, searchClass
    credFile,       \* the Roame credential file: exists, sessionExpiresAt
    pc,             \* position of runSearch
    microQ,         \* pending promise reactions, FIFO
    execRunning,    \* the execSync call that holds the thread, or "none"
    allFlights,     \* runSearch's shared list
    completionPct,  \* runSearch's per-source completion record
    roame,          \* searchRoameSource: state, class index, local list, sum
    google,         \* google task: state, class index, fast_flights and SerpAPI lists
    hidden,         \* searchHiddenCity: state, result
    usageFile,      \* serpapi-usage.json: month, searches
    usageAtStart,   \* history: the usage file when runSearch started
    serpRequests,   \* history: SerpAPI requests issued by this process
    calls           \* history: outcome of every provider call

orchVars == <<config, credFile, pc, microQ, execRunning, allFlights,
              completionPct, roame, google, hidden, usageAtStart,
              serpRequests, calls>>

VARIABLES
    pollPc,         \* position of pollResults
    elapsed,        \* Date.now() - start, in seconds
    lastPct,        \* pollResults' lastPct
    lastFareCount,  \* pollResults' lastFareCount
    staleCount,     \* pollResults' staleCount
    result,         \* what pollResults returned: fares (their number), percentCompleted
    pollHist        \* history: responses seen, requests issued, times

pollVars == <<pollPc, elapsed, lastPct, lastFareCount, staleCount, result, pollHist>>

VARIABLES
    rpc,            \* per process: position in searchSerpApiGoogle
    rusage,         \* per process: the usage record it holds in memory
    rcls,           \* per process: index in classesToSearch
    rclass,         \* per process: config.searchClass
    rhist           \* history per process: requests issued, count seen by checkSerpApiUsage

raceVars == <<rpc, rusage, rcls, rclass, rhist>>

VARIABLES
    scorePc,          \* position in the end of runSearch
    scoreIn,          \* what the adapters returned, and the balances
    merged,           \* runSearch's allFlights after the merges
    scored,           \* the scored flights, sorted
    recommendations   \* what generateRecommendations returned

scoreVars == <<scorePc, scoreIn, merged, scored, recommendations>>

VARIABLES
    spotPc,           \* position of the matchSweetSpots caller
    spotIn,           \* the arguments of matchSweetSpots
    spotOut,          \* what matchSweetSpots returned
    spotRaised        \* the rule whose threshold the points were raised above

spotVars == <<spotPc, spotIn, spotOut, spotRaised>>

VARIABLES
    fundPc,           \* position of the findFundingPaths caller
    fundIn,           \* the arguments of findFundingPaths
    fundOut,          \* what findFundingPaths returned
    fundAfford        \* what canAfford returned on the same arguments

fundVars == <<fundPc, fundIn, fundOut, fundAfford>>

\* the value engine's part of the state
valueVars == <<scoreVars, spotVars, fundVars>>

vars == <<orchVars, usageFile, pollVars, raceVars, valueVars>>

\* ------------------------------------------------------------------------
\* Helpers
\* ------------------------------------------------------------------------
SetEntry(f, k, v) == [x \in (DOMAIN f) \cup {k} |-> IF x = k THEN v ELSE f[x]]

NotCalled == [kind |-> "none", n |-> 0, pct |-> 0]
\* the call failed: it threw, or answered with an HTTP error status
Threw == [kind |-> "throw", n |-> 0, pct |-> 0]
Returned(k, p) == [kind |-> "ok", n |-> k, pct |-> p]

\* ------------------------------------------------------------------------
\* Adapters' pure parts
\* ------------------------------------------------------------------------
RoameClasses(sc) == IF sc = "both" THEN <<"ECON", "PREM">> ELSE <<sc>>

FastCabins(sc) == IF sc = "both" THEN <<"economy", "business">>
                  ELSE IF sc = "PREM" THEN <<"business">> ELSE <<"economy">>

SerpClasses(sc) == IF sc = "both" THEN <<1, 2>>
                   ELSE IF sc = "PREM" THEN <<2>> ELSE <<1>>

cabinNames(travelClass) == IF travelClass = 2 THEN "business" ELSE "economy"

\* cabin guessed from the provider's cabinClasses strings; the provider is
\* taken to answer an ECON job with economy fares and a PREM job with business
guessCabinFromClasses(cls) == IF cls = "PREM" THEN "business" ELSE "economy"

\* k fares of one Roame job converted; the index restarts at 0 in every call
roameFaresToUnified(k, cls) ==
    [i \in 1..k |-> [id |-> <<"roame", "UNITED", i - 1>>, source |-> "roame",
                     type |-> "award", cabinClass |-> guessCabinFromClasses(cls)]]

\* k cash itineraries pushed onto an adapter-local list that holds len records
GoogleRecords(len, k, cabin) ==
    [i \in 1..k |-> [id |-> <<"google", len + i - 1>>, source |-> "google",
                     type |-> "cash", cabinClass |-> cabin]]

HiddenRecords(k) ==
    [i \in 1..k |-> [id |-> <<"hidden-city", i - 1>>, source |-> "hidden-city",
                     type |-> "cash", cabinClass |-> "economy"]]

\* allFlights.push(...flights): the merge step of every then-callback
Merge_drop(all, flights) == flights
Merge(all, flights) == all \o flights

\* completion of a cash adapter: 100 when it has any flight
CashCompletion(flights) == IF Len(flights) > 0 THEN 100 ELSE 0

\* searchRoameSource's completion: the average over the classes searched
RoameCompletion(total, sc) == total \div Len(RoameClasses(sc))

\* searchHiddenCity's catch block
HiddenCatch_full == [flights |-> <<>>, completion |-> 100]
HiddenCatch == [flights |-> <<>>, completion |-> 0]

\* loadCredentials: Date.now() and the credential files it can meet; a
\* sessionExpiresAt of 0 stands for a file that declares no expiry
NowMs == 2
CredFiles == {[exists |-> FALSE, sessionExpiresAt |-> 0]} \cup
             {[exists |-> TRUE, sessionExpiresAt |-> e] : e \in {0, 1, 3}}
loadCredentialsThrows_noExpiry(f) == ~f.exists
loadCredentialsThrows(f) ==
    \/ ~f.exists
    \/ (f.sessionExpiresAt # 0 /\ NowMs > f.sessionExpiresAt)

\* checkSerpApiUsage: the usage record it goes on with and whether it allows
CheckReset(u) == IF u.month # CurrentMonth
                 THEN [month |-> CurrentMonth, searches |-> 0] ELSE u

CheckAllowed_above(u) == ~(u.searches > MONTHLY_LIMIT)
CheckAllowed(u) == ~(u.searches >= MONTHLY_LIMIT)

\* incrementSerpApiUsage: the record it writes back for the record it read
IncrementUsage_lost(u) ==
    IF u.month # CurrentMonth THEN [month |-> CurrentMonth, searches |-> 0] ELSE u
IncrementUsage(u) ==
    LET v == IF u.month # CurrentMonth
             THEN [month |-> CurrentMonth, searches |-> 0] ELSE u
    IN  [v EXCEPT !.searches = v.searches + 1]

\* ------------------------------------------------------------------------
\* Initial state: runSearch has loaded the balances and is about to launch
\* ------------------------------------------------------------------------
InitUsage == {[month |-> 0, searches |-> MONTHLY_LIMIT]} \cup
             {[month |-> CurrentMonth, searches |-> n] :
                 n \in {MONTHLY_LIMIT - 1, MONTHLY_LIMIT}}

roameIdle == [state |-> "idle", cls |-> 1, allFlights |-> <<>>,
              totalCompletion |-> 0]
googleIdle == [state |-> "idle", cls |-> 1, fast |-> <<>>, serp |-> <<>>]
hiddenIdle == [state |-> "idle", flights |-> <<>>, completion |-> 0]
callsNone == [roame |-> <<NotCalled, NotCalled>>, fast |-> <<NotCalled, NotCalled>>,
              serp |-> <<NotCalled, NotCalled>>, hidden |-> NotCalled,
              check |-> NotCalled]

\* the parts of the state that belong to pollResults and to the second
\* process stay put while runSearch is looked at
noResult == [fares |-> 0, percentCompleted |-> 0]
pollHistNone == [runLen |-> 0, sinceFirst |-> TRUE, lastResp |-> [pct |-> 0, n |-> 0],
                 respondedAt |-> 0, issuedAt |-> 0, kind |-> "running"]
PollOff ==
    /\ pollPc = "off"
    /\ elapsed = 0
    /\ lastPct = 0
    /\ lastFareCount = 0
    /\ staleCount = 0
    /\ result = noResult
    /\ pollHist = pollHistNone

rhistNone == [requests |-> 0, checked |-> 0, overCap |-> FALSE]
RaceOff ==
    /\ rpc = [p \in Procs |-> "off"]
    /\ rusage = [p \in Procs |-> [month |-> 0, searches |-> 0]]
    /\ rcls = [p \in Procs |-> 1]
    /\ rclass = [p \in Procs |-> "ECON"]
    /\ rhist = [p \in Procs |-> rhistNone]

\* the value engine stays put while the other machines are looked at
ScoreOff ==
    /\ scorePc = "off"
    /\ scoreIn = [roame |-> <<>>, serp |-> <<>>, balances |-> <<>>]
    /\ merged = <<>>
    /\ scored = <<>>
    /\ recommendations = <<>>

SpotsOff ==
    /\ spotPc = "off"
    /\ spotIn = [origin |-> "", destination |-> "", program |-> "", cabin |-> "",
                 points |-> 0, cashComparable |-> 0]
    /\ spotOut = <<>>
    /\ spotRaised = ""

FundOff ==
    /\ fundPc = "off"
    /\ fundIn = [toProgramKey |-> "", amountNeeded |-> 0, balances |-> <<>>]
    /\ fundOut = <<>>
    /\ fundAfford = [affordable |-> FALSE, bestPath |-> "none"]

ValueOff == ScoreOff /\ SpotsOff /\ FundOff

InitOrch ==
    /\ config \in [sources : SUBSET KnownSources, searchClass : SearchClasses]
    /\ credFile \in (IF "roame" \in config.sources THEN CredFiles
                     ELSE {[exists |-> TRUE, sessionExpiresAt |-> 0]})
    /\ pc = "launch_roame"
    /\ microQ = <<>>
    /\ execRunning = "none"
    /\ allFlights = <<>>
    /\ completionPct = <<>>
    /\ roame = roameIdle
    /\ google = googleIdle
    /\ hidden = hiddenIdle
    /\ usageFile \in (IF "google" \in config.sources THEN InitUsage
                      ELSE {[month |-> CurrentMonth, searches |-> 0]})
    /\ usageAtStart = usageFile
    /\ serpRequests = 0
    /\ calls = callsNone

\* ------------------------------------------------------------------------
\* The event loop.  Synchronous code runs to its next await in one step; a
\* promise reaction runs when it is at the head of the microtask queue; a
\* network completion or timer runs only when the main flow has reached its
\* await, no execSync holds the thread and the microtask queue is empty.
\* ------------------------------------------------------------------------
ThreadFree == execRunning = "none" /\ pc = "await_all"
Micro(name) == ThreadFree /\ microQ # <<>> /\ Head(microQ) = name
Macro == ThreadFree /\ microQ = <<>>

\* ---------------- Roame: searchRoameSource / searchRoame -----------------
\* The class loop of searchRoameSource reaches class i: searchRoame runs
\* loadCredentials and, when that passes, issues the submit mutation.
\* r: the adapter record so far, c: the call history so far, q: the queue.
RoameEnterClass(r, c, q, i) ==
    IF ~loadCredentialsThrows(credFile)
    THEN /\ roame' = [r EXCEPT !.state = "submit_inflight", !.cls = i]
         /\ calls' = c
         /\ microQ' = q
    ELSE /\ roame' = [r EXCEPT !.state = "rejected", !.cls = i]
         /\ calls' = [c EXCEPT !.roame[i] = Threw]
         /\ microQ' = Append(q, "roame_cont")

\* The loop body for class r.cls is over (returned or caught): next class,
\* or return from searchRoameSource, which queues runSearch's then-callback.
RoameNextClass(r, c, q) ==
    IF r.cls < Len(RoameClasses(config.searchClass))
    THEN RoameEnterClass(r, c, q, r.cls + 1)
    ELSE /\ roame' = [r EXCEPT !.state = "returned", !.cls = 1]
         /\ calls' = c
         /\ microQ' = Append(q, "roame_then")

LaunchRoame ==
    /\ pc = "launch_roame"
    /\ pc' = "launch_google"
    /\ IF "roame" \in config.sources
       THEN RoameEnterClass(roame, calls, microQ, 1)
       ELSE UNCHANGED <<roame, calls, microQ>>
    /\ UNCHANGED <<config, credFile, execRunning, allFlights, completionPct,
                   google, hidden, usageFile, usageAtStart, serpRequests>>
    /\ UNCHANGED <<pollVars, raceVars, valueVars>>

\* the catch block of the class loop after searchRoame rejected synchronously
RoameCont ==
    /\ Micro("roame_cont")
    /\ roame.state = "rejected"
    /\ RoameNextClass(roame, calls, Tail(microQ))
    /\ UNCHANGED <<config, credFile, pc, execRunning, allFlights, completionPct,
                   google, hidden, usageFile, usageAtStart, serpRequests>>
    /\ UNCHANGED <<pollVars, raceVars, valueVars>>

\* response to the submit mutation: a job id (pollResults issues its first
\* status request) or an error (caught by the class loop)
RoameSubmitResponse ==
    /\ Macro
    /\ roame.state = "submit_inflight"
    /\ \E ok \in BOOLEAN :
          IF ok
          THEN /\ roame' = [roame EXCEPT !.state = "poll_inflight"]
               /\ UNCHANGED <<calls, microQ>>
          ELSE RoameNextClass(roame, [calls EXCEPT !.roame[roame.cls] = Threw], microQ)
    /\ UNCHANGED <<config, credFile, pc, execRunning, allFlights, completionPct,
                   google, hidden, usageFile, usageAtStart, serpRequests>>
    /\ UNCHANGED <<pollVars, raceVars, valueVars>>

\* searchRoame returned k fares at percentage p: convert, push, add up
RoameClassReturned(k, p) ==
    RoameNextClass(
        [roame EXCEPT !.allFlights = @ \o roameFaresToUnified(k, RoameClasses(config.searchClass)[roame.cls]),
                      !.totalCompletion = @ + p],
        [calls EXCEPT !.roame[roame.cls] = Returned(k, p)],
        microQ)

\* response to a status request: pollResults goes to sleep, returns, or the
\* request failed
RoamePollResponse ==
    /\ Macro
    /\ roame.state = "poll_inflight"
    /\ \/ /\ roame' = [roame EXCEPT !.state = "sleeping"]
          /\ UNCHANGED <<calls, microQ>>
       \/ \E k \in 0..MaxFares, p \in PctValues : RoameClassReturned(k, p)
       \/ RoameNextClass(roame, [calls EXCEPT !.roame[roame.cls] = Threw], microQ)
    /\ UNCHANGED <<config, credFile, pc, execRunning, allFlights, completionPct,
                   google, hidden, usageFile, usageAtStart, serpRequests>>
    /\ UNCHANGED <<pollVars, raceVars, valueVars>>

\* the poll timer fires: next status request, or the deadline has passed and
\* pollResults returns no fares with the last percentage
RoameWake ==
    /\ Macro
    /\ roame.state = "sleeping"
    /\ \/ /\ roame' = [roame EXCEPT !.state = "poll_inflight"]
          /\ UNCHANGED <<calls, microQ>>
       \/ \E p \in PctValues \ {100} : RoameClassReturned(0, p)
    /\ UNCHANGED <<config, credFile, pc, execRunning, allFlights, completionPct,
                   google, hidden, usageFile, usageAtStart, serpRequests>>
    /\ UNCHANGED <<pollVars, raceVars, valueVars>>

\* runSearch's then-callback for Roame: the merge step
RoameThen ==
    /\ Micro("roame_then")
    /\ roame.state = "returned"
    /\ microQ' = Tail(microQ)
    /\ allFlights' = Merge(allFlights, roame.allFlights)
    /\ completionPct' = SetEntry(completionPct, "roame",
                                 RoameCompletion(roame.totalCompletion, config.searchClass))
    /\ roame' = [roame EXCEPT !.state = "settled"]
    /\ UNCHANGED <<config, credFile, pc, execRunning, google, hidden, usageFile,
                   usageAtStart, serpRequests, calls>>
    /\ UNCHANGED <<pollVars, raceVars, valueVars>>

\* ---------------- Google: fast_flights, then the SerpAPI fallback ---------
\* searchFastFlights has no await: it runs inside the launch code, one
\* execSync per cabin, and the thread is held until the last one is over.
LaunchGoogle ==
    /\ pc = "launch_google"
    /\ google.state = "idle"
    /\ IF "google" \notin config.sources
       THEN /\ pc' = "launch_hidden"
            /\ UNCHANGED <<google, execRunning, microQ>>
       ELSE \E scriptExists \in BOOLEAN :
              IF scriptExists
              THEN /\ google' = [google EXCEPT !.state = "fast_exec", !.cls = 1]
                   /\ execRunning' = "fast_flights"
                   /\ UNCHANGED <<pc, microQ>>
              ELSE /\ google' = [google EXCEPT !.state = "fast_done"]
                   /\ microQ' = Append(microQ, "google_p2")
                   /\ pc' = "launch_hidden"
                   /\ UNCHANGED execRunning
    /\ UNCHANGED <<config, credFile, allFlights, completionPct, roame, hidden,
                   usageFile, usageAtStart, serpRequests, calls>>
    /\ UNCHANGED <<pollVars, raceVars, valueVars>>

\* one execSync of the fast_flights script returns (k results) or throws
\* (timeout, exit status, unparsable last line: caught per cabin)
FastExecEnd ==
    /\ execRunning = "fast_flights"
    /\ google.state = "fast_exec"
    /\ \E ok \in BOOLEAN, k \in 0..MaxFares :
         LET cabins == FastCabins(config.searchClass)
             got == IF ok THEN GoogleRecords(Len(google.fast), k, cabins[google.cls])
                    ELSE <<>>
             out == IF ok THEN Returned(k, 0) ELSE Threw
         IN  /\ calls' = [calls EXCEPT !.fast[google.cls] = out]
             /\ IF google.cls < Len(cabins)
                THEN /\ google' = [google EXCEPT !.fast = @ \o got, !.cls = @ + 1]
                     /\ UNCHANGED <<execRunning, microQ, pc>>
                ELSE /\ google' = [google EXCEPT !.fast = @ \o got, !.state = "fast_done", !.cls = 1]
                     /\ execRunning' = "none"
                     /\ microQ' = Append(microQ, "google_p2")
                     /\ pc' = "launch_hidden"
    /\ UNCHANGED <<config, credFile, allFlights, completionPct, roame, hidden,
                   usageFile, usageAtStart, serpRequests>>
    /\ UNCHANGED <<pollVars, raceVars, valueVars>>

\* the reaction of searchFastFlights(config).catch(...): passes the value on
GoogleP2 ==
    /\ Micro("google_p2")
    /\ microQ' = Append(Tail(microQ), "google_cont")
    /\ UNCHANGED <<config, credFile, pc, execRunning, allFlights, completionPct,
                   roame, google, hidden, usageFile, usageAtStart, serpRequests, calls>>
    /\ UNCHANGED <<pollVars, raceVars, valueVars>>

\* The class loop of searchSerpApiGoogle from class i on, in one synchronous
\* stretch: incrementSerpApiUsage, then fetch.  fsOK: the usage file can be
\* written during this stretch; a failed write throws inside the class's try,
\* so no request goes out for that class.
SerpLoop(g, c, file, i, fsOK, q) ==
    LET classes == SerpClasses(config.searchClass)
    IN  IF i <= Len(classes) /\ fsOK
        THEN /\ usageFile' = IncrementUsage(file)
             /\ serpRequests' = serpRequests + 1
             /\ google' = [g EXCEPT !.state = "serp_inflight", !.cls = i]
             /\ calls' = c
             /\ microQ' = q
        ELSE /\ usageFile' = file
             /\ serpRequests' = serpRequests
             /\ google' = [g EXCEPT !.state = "serp_returned", !.cls = 1]
             /\ calls' = [c EXCEPT !.serp = [j \in 1..2 |->
                             IF j >= i /\ j <= Len(classes) THEN Threw ELSE c.serp[j]]]
             /\ microQ' = Append(q, "google_merge")

\* the google task after fast_flights: merge its flights, or fall back to
\* searchSerpApiGoogle (API key, checkSerpApiUsage, first request)
GoogleCont ==
    /\ Micro("google_cont")
    /\ google.state = "fast_done"
    /\ IF Len(google.fast) > 0
       THEN /\ allFlights' = Merge(allFlights, google.fast)
            /\ completionPct' = SetEntry(completionPct, "google", CashCompletion(google.fast))
            /\ google' = [google EXCEPT !.state = "settled"]
            /\ microQ' = Tail(microQ)
            /\ UNCHANGED <<usageFile, serpRequests, calls>>
       ELSE /\ UNCHANGED <<allFlights, completionPct>>
            /\ \E hasKey \in BOOLEAN, fsOK \in BOOLEAN :
                 LET u == CheckReset(usageFile)
                 IN  IF ~hasKey
                     THEN /\ google' = [google EXCEPT !.state = "serp_returned"]
                          /\ microQ' = Append(Tail(microQ), "google_merge")
                          /\ UNCHANGED <<usageFile, serpRequests, calls>>
                     ELSE IF u # usageFile /\ ~fsOK
                     THEN /\ google' = [google EXCEPT !.state = "rejected"]
                          /\ microQ' = Append(Tail(microQ), "google_catch")
                          /\ calls' = [calls EXCEPT !.check = Threw]
                          /\ UNCHANGED <<usageFile, serpRequests>>
                     ELSE IF ~CheckAllowed(u)
                     THEN /\ google' = [google EXCEPT !.state = "serp_returned"]
                          /\ microQ' = Append(Tail(microQ), "google_merge")
                          /\ usageFile' = u
                          /\ calls' = [calls EXCEPT !.check = [kind |-> "skip", n |-> 0, pct |-> 0]]
                          /\ UNCHANGED serpRequests
                     ELSE SerpLoop(google,
                                   [calls EXCEPT !.check = [kind |-> "allowed", n |-> 0, pct |-> 0]],
                                   u, 1, fsOK, Tail(microQ))
    /\ UNCHANGED <<config, credFile, pc, execRunning, roame, hidden, usageAtStart>>
    /\ UNCHANGED <<pollVars, raceVars, valueVars>>

\* response to a SerpAPI request: k itineraries, an HTTP error status
\* (continue) or a failure (caught per class); then the next class
SerpResponse ==
    /\ Macro
    /\ google.state = "serp_inflight"
    /\ \E out \in {"ok", "http_error", "throw"}, k \in 0..MaxFares, fsOK \in BOOLEAN :
         LET travelClass == SerpClasses(config.searchClass)[google.cls]
             got == IF out = "ok"
                    THEN GoogleRecords(Len(google.serp), k, cabinNames(travelClass))
                    ELSE <<>>
             res == IF out = "ok" THEN Returned(k, 0) ELSE Threw
         IN  SerpLoop([google EXCEPT !.serp = @ \o got],
                      [calls EXCEPT !.serp[google.cls] = res],
                      usageFile, google.cls + 1, fsOK, microQ)
    /\ UNCHANGED <<config, credFile, pc, execRunning, allFlights, completionPct,
                   roame, hidden, usageAtStart>>
    /\ UNCHANGED <<pollVars, raceVars, valueVars>>

\* the google task merges the SerpAPI result
GoogleMerge ==
    /\ Micro("google_merge")
    /\ google.state = "serp_returned"
    /\ microQ' = Tail(microQ)
    /\ allFlights' = Merge(allFlights, google.serp)
    /\ completionPct' = SetEntry(completionPct, "google", CashCompletion(google.serp))
    /\ google' = [google EXCEPT !.state = "settled"]
    /\ UNCHANGED <<config, credFile, pc, execRunning, roame, hidden, usageFile,
                   usageAtStart, serpRequests, calls>>
    /\ UNCHANGED <<pollVars, raceVars, valueVars>>

\* the google task's catch handler (checkSerpApiUsage could not write)
GoogleCatch ==
    /\ Micro("google_catch")
    /\ google.state = "rejected"
    /\ microQ' = Tail(microQ)
    /\ completionPct' = SetEntry(completionPct, "google", 0)
    /\ google' = [google EXCEPT !.state = "settled"]
    /\ UNCHANGED <<config, credFile, pc, execRunning, allFlights, roame, hidden,
                   usageFile, usageAtStart, serpRequests, calls>>
    /\ UNCHANGED <<pollVars, raceVars, valueVars>>

\* ---------------- Hidden city: one execSync, no await ---------------------
LaunchHidden ==
    /\ pc = "launch_hidden"
    /\ hidden.state = "idle"
    /\ IF "hidden-city" \notin config.sources
       THEN /\ pc' = "await_all"
            /\ UNCHANGED <<hidden, execRunning, microQ>>
       ELSE \E scriptExists \in BOOLEAN :
              IF scriptExists
              THEN /\ hidden' = [hidden EXCEPT !.state = "exec"]
                   /\ execRunning' = "hidden-city"
                   /\ UNCHANGED <<pc, microQ>>
              ELSE /\ hidden' = [hidden EXCEPT !.state = "returned"]
                   /\ microQ' = Append(microQ, "hidden_then")
                   /\ pc' = "await_all"
                   /\ UNCHANGED execRunning
    /\ UNCHANGED <<config, credFile, allFlights, completionPct, roame, google,
                   usageFile, usageAtStart, serpRequests, calls>>
    /\ UNCHANGED <<pollVars, raceVars, valueVars>>

HiddenExecEnd ==
    /\ execRunning = "hidden-city"
    /\ hidden.state = "exec"
    /\ \E ok \in BOOLEAN, k \in 0..MaxFares :
         LET res == IF ok
                    THEN [flights |-> HiddenRecords(k), completion |-> IF k > 0 THEN 100 ELSE 0]
                    ELSE HiddenCatch
         IN  /\ hidden' = [state |-> "returned", flights |-> res.flights,
                           completion |-> res.completion]
             /\ calls' = [calls EXCEPT !.hidden = IF ok THEN Returned(k, 0) ELSE Threw]
    /\ execRunning' = "none"
    /\ microQ' = Append(microQ, "hidden_then")
    /\ pc' = "await_all"
    /\ UNCHANGED <<config, credFile, allFlights, completionPct, roame, google,
                   usageFile, usageAtStart, serpRequests>>
    /\ UNCHANGED <<pollVars, raceVars, valueVars>>

HiddenThen ==
    /\ Micro("hidden_then")
    /\ hidden.state = "returned"
    /\ microQ' = Tail(microQ)
    /\ allFlights' = Merge(allFlights, hidden.flights)
    /\ completionPct' = SetEntry(completionPct, "hidden-city", hidden.completion)
    /\ hidden' = [hidden EXCEPT !.state = "settled"]
    /\ UNCHANGED <<config, credFile, pc, execRunning, roame, google, usageFile,
                   usageAtStart, serpRequests, calls>>
    /\ UNCHANGED <<pollVars, raceVars, valueVars>>

\* ---------------- runSearch after the launch ------------------------------
AdapterState_roameOnly(s) == roame.state
AdapterState(s) == IF s = "roame" THEN roame.state
                   ELSE IF s = "google" THEN google.state ELSE hidden.state

\* Promise.allSettled(promises) resolves: every launched task has settled
AwaitAll ==
    /\ Macro
    /\ \A s \in config.sources : AdapterState(s) = "settled"
    /\ pc' = "scoring"
    /\ UNCHANGED <<config, credFile, microQ, execRunning, allFlights, completionPct,
                   roame, google, hidden, usageFile, usageAtStart, serpRequests, calls>>
    /\ UNCHANGED <<pollVars, raceVars, valueVars>>

\* scoring, recommendations and the return of the result
ScoreAndReturn ==
    /\ pc = "scoring"
    /\ pc' = "done"
    /\ UNCHANGED <<config, credFile, microQ, execRunning, allFlights, completionPct,
                   roame, google, hidden, usageFile, usageAtStart, serpRequests, calls>>
    /\ UNCHANGED <<pollVars, raceVars, valueVars>>

NextOrch ==
    \/ LaunchRoame \/ RoameCont \/ RoameSubmitResponse \/ RoamePollResponse
    \/ RoameWake \/ RoameThen
    \/ LaunchGoogle \/ FastExecEnd \/ GoogleP2 \/ GoogleCont \/ SerpResponse
    \/ GoogleMerge \/ GoogleCatch
    \/ LaunchHidden \/ HiddenExecEnd \/ HiddenThen
    \/ AwaitAll \/ ScoreAndReturn

Init == InitOrch /\ PollOff /\ RaceOff /\ ValueOff
Next == NextOrch
Spec == Init /\ [][Next]_vars

\* ------------------------------------------------------------------------
\* runSearch stays put while pollResults or the two processes are looked at
\* ------------------------------------------------------------------------
OrchOff ==
    /\ config = [sources |-> {}, searchClass |-> "ECON"]
    /\ credFile = [exists |-> TRUE, sessionExpiresAt |-> 0]
    /\ pc = "off"
    /\ microQ = <<>>
    /\ execRunning = "none"
    /\ allFlights = <<>>
    /\ completionPct = <<>>
    /\ roame = roameIdle
    /\ google = googleIdle
    /\ hidden = hiddenIdle
    /\ serpRequests = 0
    /\ calls = callsNone

\* ------------------------------------------------------------------------
\* pollResults, with its clock.  Times are whole seconds: a status request
\* takes 0..MaxLatency seconds (fetch has no timeout of its own), the sleep
\* takes PollIntervalS.  A fare list is modelled by its length.
\* ------------------------------------------------------------------------
\* the while condition: Date.now() - start < maxWaitMs
DeadlineOpen_late(e) == e <= MaxWaitS
DeadlineOpen(e) == e < MaxWaitS

\* percentCompleted >= 100
Completed_over(pct) == pct > 100
Completed(pct) == pct >= 100

\* fares.length === lastFareCount && percentCompleted === lastPct
NoProgress_either(pct, n) == n = lastFareCount \/ pct = lastPct
NoProgress(pct, n) == n = lastFareCount /\ pct = lastPct

\* staleCount >= 4
Stalled_late(c) == c > StaleLimit
Stalled(c) == c >= StaleLimit

\* the return after the loop: { fares: [], percentCompleted: lastPct }
TimedOut_zero(pct) == [fares |-> 0, percentCompleted |-> 0]
TimedOut(pct) == [fares |-> 0, percentCompleted |-> pct]

InitPoll ==
    /\ OrchOff
    /\ RaceOff
    /\ ValueOff
    /\ usageFile = [month |-> CurrentMonth, searches |-> 0]
    /\ usageAtStart = usageFile
    /\ pollPc = "check"
    /\ elapsed = 0
    /\ lastPct = 0
    /\ lastFareCount = 0
    /\ staleCount = 0
    /\ result = noResult
    /\ pollHist = pollHistNone

\* The while condition is evaluated: either the next status request goes
\* out, or the loop is left and the empty list is returned with lastPct.
PollCheck ==
    /\ pollPc = "check"
    /\ IF DeadlineOpen(elapsed)
       THEN /\ pollPc' = "inflight"
            /\ pollHist' = [pollHist EXCEPT !.issuedAt = elapsed]
            /\ UNCHANGED result
       ELSE /\ pollPc' = "returned"
            /\ result' = TimedOut(lastPct)
            /\ pollHist' = [pollHist EXCEPT !.kind = "timeout"]
    /\ UNCHANGED <<elapsed, lastPct, lastFareCount, staleCount>>
    /\ UNCHANGED <<orchVars, usageFile, raceVars, valueVars>>

\* The status request is answered after d seconds with pct and n fares; the
\* body of the loop runs up to its return or up to the sleep.
PollResponse ==
    /\ pollPc = "inflight"
    /\ \E d \in 0..MaxLatency, pct \in PollPcts, n \in 0..MaxPollFares :
        LET resp == [pct |-> pct, n |-> n]
            same == pollHist.runLen > 0 /\ pollHist.lastResp = resp
            h == [pollHist EXCEPT !.respondedAt = elapsed + d,
                                  !.lastResp = resp,
                                  !.runLen = IF same THEN @ + 1 ELSE 1,
                                  !.sinceFirst = (pollHist.runLen = 0)
                                                 \/ (same /\ @)]
            stale == IF NoProgress(pct, n) THEN staleCount + 1 ELSE 0
        IN  /\ elapsed' = elapsed + d
            /\ IF Completed(pct)
               THEN /\ pollPc' = "returned"
                    /\ result' = [fares |-> n, percentCompleted |-> pct]
                    /\ pollHist' = [h EXCEPT !.kind = "completed"]
                    /\ UNCHANGED <<lastPct, lastFareCount, staleCount>>
               ELSE IF NoProgress(pct, n) /\ Stalled(stale)
               THEN /\ pollPc' = "returned"
                    /\ result' = [fares |-> n, percentCompleted |-> pct]
                    /\ pollHist' = [h EXCEPT !.kind = "stalled"]
                    /\ staleCount' = stale
                    /\ UNCHANGED <<lastPct, lastFareCount>>
               ELSE /\ pollPc' = "sleeping"
                    /\ staleCount' = stale
                    /\ lastPct' = pct
                    /\ lastFareCount' = n
                    /\ pollHist' = h
                    /\ UNCHANGED result
    /\ UNCHANGED <<orchVars, usageFile, raceVars, valueVars>>

\* The status request fails (network error, non-200, GraphQL errors): graphql
\* throws and pollResults has no catch.
PollRequestFails ==
    /\ pollPc = "inflight"
    /\ \E d \in 0..MaxLatency : elapsed' = elapsed + d
    /\ pollPc' = "threw"
    /\ pollHist' = [pollHist EXCEPT !.kind = "threw"]
    /\ UNCHANGED <<lastPct, lastFareCount, staleCount, result>>
    /\ UNCHANGED <<orchVars, usageFile, raceVars, valueVars>>

\* The 3000 ms timer fires; the loop goes back to its condition.
PollWake ==
    /\ pollPc = "sleeping"
    /\ elapsed' = elapsed + PollIntervalS
    /\ pollPc' = "check"
    /\ UNCHANGED <<lastPct, lastFareCount, staleCount, result, pollHist>>
    /\ UNCHANGED <<orchVars, usageFile, raceVars, valueVars>>

NextPoll == PollCheck \/ PollResponse \/ PollRequestFails \/ PollWake
SpecPoll == InitPoll /\ [][NextPoll]_vars

\* ------------------------------------------------------------------------
\* Two searches at once.  serve.ts starts every search as a process of its
\* own, so two runs of searchSerpApiGoogle share serpapi-usage.json and
\* nothing else.  One step is what a process does up to and including its
\* next access to the file or to the network.
\* ------------------------------------------------------------------------
\* after checkSerpApiUsage: into the class loop, or out with no flights
RaceDecide(p, u) ==
    /\ rpc' = [rpc EXCEPT ![p] = IF CheckAllowed(u) THEN "inc_read" ELSE "done"]
    /\ rhist' = [rhist EXCEPT ![p].checked = u.searches]

InitRace ==
    /\ OrchOff
    /\ PollOff
    /\ ValueOff
    /\ usageFile \in InitUsage
    /\ usageAtStart = usageFile
    /\ rpc = [p \in Procs |-> "check"]
    /\ rusage = [p \in Procs |-> [month |-> 0, searches |-> 0]]
    /\ rcls = [p \in Procs |-> 1]
    /\ rclass \in [Procs -> SearchClasses]
    /\ rhist = [p \in Procs |-> rhistNone]

\* checkSerpApiUsage reads the file; a record of another month is replaced
\* in memory and is written back in the next step.
RaceCheckRead(p) ==
    /\ rpc[p] = "check"
    /\ rusage' = [rusage EXCEPT ![p] = CheckReset(usageFile)]
    /\ IF usageFile.month # CurrentMonth
       THEN /\ rpc' = [rpc EXCEPT ![p] = "check_write"]
            /\ UNCHANGED rhist
       ELSE RaceDecide(p, usageFile)
    /\ UNCHANGED <<usageFile, rcls, rclass>>
    /\ UNCHANGED <<orchVars, pollVars, valueVars>>

\* checkSerpApiUsage writes the reset record and decides on it.
RaceCheckWrite(p) ==
    /\ rpc[p] = "check_write"
    /\ usageFile' = rusage[p]
    /\ RaceDecide(p, rusage[p])
    /\ UNCHANGED <<rusage, rcls, rclass>>
    /\ UNCHANGED <<orchVars, pollVars, valueVars>>

\* incrementSerpApiUsage reads the file.
RaceIncRead(p) ==
    /\ rpc[p] = "inc_read"
    /\ rusage' = [rusage EXCEPT ![p] = usageFile]
    /\ rpc' = [rpc EXCEPT ![p] = "inc_write"]
    /\ UNCHANGED <<usageFile, rcls, rclass, rhist>>
    /\ UNCHANGED <<orchVars, pollVars, valueVars>>

\* incrementSerpApiUsage writes the record it read, plus one, and the
\* request goes out.  The history notes a request that goes out while the
\* file already stands at the cap although this process's own check and
\* own requests stay below it.
RaceIncWrite(p) ==
    /\ rpc[p] = "inc_write"
    /\ usageFile' = IncrementUsage(rusage[p])
    /\ rpc' = [rpc EXCEPT ![p] = "inflight"]
    /\ rhist' = [rhist EXCEPT
                   ![p].requests = @ + 1,
                   ![p].overCap = @ \/ (/\ CheckReset(usageFile).searches >= MONTHLY_LIMIT
                                        /\ rhist[p].checked + rhist[p].requests
                                             < MONTHLY_LIMIT)]
    /\ UNCHANGED <<rusage, rcls, rclass>>
    /\ UNCHANGED <<orchVars, pollVars, valueVars>>

\* The request is answered (whatever the answer, the class loop goes on).
RaceResponse(p) ==
    /\ rpc[p] = "inflight"
    /\ IF rcls[p] < Len(SerpClasses(rclass[p]))
       THEN /\ rcls' = [rcls EXCEPT ![p] = @ + 1]
            /\ rpc' = [rpc EXCEPT ![p] = "inc_read"]
       ELSE /\ rpc' = [rpc EXCEPT ![p] = "done"]
            /\ UNCHANGED rcls
    /\ UNCHANGED <<usageFile, rusage, rclass, rhist>>
    /\ UNCHANGED <<orchVars, pollVars, valueVars>>

NextRace ==
    \E p \in Procs :
        \/ RaceCheckRead(p) \/ RaceCheckWrite(p) \/ RaceIncRead(p)
        \/ RaceIncWrite(p) \/ RaceResponse(p)
SpecRace == InitRace /\ [][NextRace]_vars

\* ------------------------------------------------------------------------
\* The sweet-spot table and matchSweetSpots.  Yields are kept in tenths of
\* a cent per point (expectedCpp10 = 10 x expectedCpp).
\* ------------------------------------------------------------------------
US_AIRPORTS ==
    {"LAX", "JFK", "SFO", "ORD", "MIA", "EWR", "IAD", "DFW", "ATL", "SEA", "BOS", "IAH", "DEN", "PHX", "LAS"}
EUROPE_AIRPORTS ==
    {"LHR", "CDG", "AMS", "FRA", "FCO", "MAD", "BCN", "IST", "ZRH", "MUC", "VIE", "CPH", "DUB", "LIS"}
ASIA_AIRPORTS ==
    {"NRT", "HND", "ICN", "HKG", "SIN", "BKK", "TPE", "KUL", "CGK", "MNL", "DEL", "BOM", "PVG", "PEK"}
MIDDLE_EAST_AIRPORTS ==
    {"DXB", "DOH", "AUH", "JED", "RUH", "AMM", "TLV"}
OCEANIA_AIRPORTS ==
    {"SYD", "MEL", "AKL", "BNE"}

matchesRegion(airport, region) ==
    IF region = "US" THEN airport \in US_AIRPORTS
    ELSE IF region = "Europe" THEN airport \in EUROPE_AIRPORTS
    ELSE IF region = "Asia" THEN airport \in ASIA_AIRPORTS
    ELSE IF region = "Middle East" THEN airport \in MIDDLE_EAST_AIRPORTS
    ELSE IF region = "Oceania" THEN airport \in OCEANIA_AIRPORTS
    ELSE FALSE

SWEET_SPOTS == <<
    [id |-> "fb-us-europe-j", program |-> "FLYING_BLUE", cabin |-> "business",
     origins |-> {}, destinations |-> {},
     originRegions |-> {"US"}, destRegions |-> {"Europe"},
     maxPoints |-> 55000, typicalCashPrice |-> 4000, expectedCpp10 |-> 70],
    [id |-> "fb-us-europe-y", program |-> "FLYING_BLUE", cabin |-> "economy",
     origins |-> {}, destinations |-> {},
     originRegions |-> {"US"}, destRegions |-> {"Europe"},
     maxPoints |-> 22000, typicalCashPrice |-> 600, expectedCpp10 |-> 27],
    [id |-> "ac-us-europe-j", program |-> "AEROPLAN", cabin |-> "business",
     origins |-> {}, destinations |-> {},
     originRegions |-> {"US"}, destRegions |-> {"Europe"},
     maxPoints |-> 70000, typicalCashPrice |-> 5000, expectedCpp10 |-> 65],
    [id |-> "ac-us-asia-j", program |-> "AEROPLAN", cabin |-> "business",
     origins |-> {}, destinations |-> {},
     originRegions |-> {"US"}, destRegions |-> {"Asia"},
     maxPoints |-> 75000, typicalCashPrice |-> 6000, expectedCpp10 |-> 75],
    [id |-> "ac-us-middle-east-j", program |-> "AEROPLAN", cabin |-> "business",
     origins |-> {}, destinations |-> {},
     originRegions |-> {"US"}, destRegions |-> {"Middle East"},
     maxPoints |-> 70000, typicalCashPrice |-> 5500, expectedCpp10 |-> 70],
    [id |-> "vs-us-japan-f", program |-> "VIRGIN_ATLANTIC", cabin |-> "first",
     origins |-> {}, destinations |-> {"NRT", "HND"},
     originRegions |-> {"US"}, destRegions |-> {},
     maxPoints |-> 120000, typicalCashPrice |-> 15000, expectedCpp10 |-> 120],
    [id |-> "vs-us-europe-delta-j", program |-> "VIRGIN_ATLANTIC", cabin |-> "business",
     origins |-> {}, destinations |-> {},
     originRegions |-> {"US"}, destRegions |-> {"Europe"},
     maxPoints |-> 50000, typicalCashPrice |-> 4000, expectedCpp10 |-> 75],
    [id |-> "as-cathay-j", program |-> "ALASKA", cabin |-> "business",
     origins |-> {}, destinations |-> {},
     originRegions |-> {"US"}, destRegions |-> {"Asia"},
     maxPoints |-> 50000, typicalCashPrice |-> 5000, expectedCpp10 |-> 90],
    [id |-> "as-jal-j", program |-> "ALASKA", cabin |-> "business",
     origins |-> {}, destinations |-> {},
     originRegions |-> {"US"}, destRegions |-> {"Asia"},
     maxPoints |-> 60000, typicalCashPrice |-> 6000, expectedCpp10 |-> 90],
    [id |-> "as-emirates-f", program |-> "ALASKA", cabin |-> "first",
     origins |-> {}, destinations |-> {},
     originRegions |-> {"US"}, destRegions |-> {"Middle East"},
     maxPoints |-> 115000, typicalCashPrice |-> 12000, expectedCpp10 |-> 100],
    [id |-> "ba-short-haul-y", program |-> "BRITISH_AIRWAYS", cabin |-> "economy",
     origins |-> {}, destinations |-> {},
     originRegions |-> {"US"}, destRegions |-> {},
     maxPoints |-> 7500, typicalCashPrice |-> 200, expectedCpp10 |-> 25],
    [id |-> "ba-short-haul-j", program |-> "BRITISH_AIRWAYS", cabin |-> "business",
     origins |-> {}, destinations |-> {},
     originRegions |-> {"US"}, destRegions |-> {},
     maxPoints |-> 15000, typicalCashPrice |-> 500, expectedCpp10 |-> 30],
    [id |-> "tk-us-ist-j", program |-> "TURKISH", cabin |-> "business",
     origins |-> {}, destinations |-> {"IST"},
     originRegions |-> {"US"}, destRegions |-> {},
     maxPoints |-> 45000, typicalCashPrice |-> 4000, expectedCpp10 |-> 80],
    [id |-> "ua-domestic-y", program |-> "UNITED", cabin |-> "economy",
     origins |-> {}, destinations |-> {},
     originRegions |-> {"US"}, destRegions |-> {"US"},
     maxPoints |-> 12500, typicalCashPrice |-> 250, expectedCpp10 |-> 18],
    [id |-> "ek-us-dxb-j", program |-> "EMIRATES", cabin |-> "business",
     origins |-> {}, destinations |-> {"DXB"},
     originRegions |-> {"US"}, destRegions |-> {},
     maxPoints |-> 72500, typicalCashPrice |-> 5000, expectedCpp10 |-> 65],
    [id |-> "ek-us-dxb-f", program |-> "EMIRATES", cabin |-> "first",
     origins |-> {}, destinations |-> {"DXB"},
     originRegions |-> {"US"}, destRegions |-> {},
     maxPoints |-> 136000, typicalCashPrice |-> 12000, expectedCpp10 |-> 85],
    [id |-> "qr-us-doha-j", program |-> "QATAR", cabin |-> "business",
     origins |-> {}, destinations |-> {"DOH"},
     originRegions |-> {"US"}, destRegions |-> {},
     maxPoints |-> 70000, typicalCashPrice |-> 5500, expectedCpp10 |-> 70],
    [id |-> "dl-flash-j", program |-> "DELTA", cabin |-> "business",
     origins |-> {}, destinations |-> {},
     originRegions |-> {"US"}, destRegions |-> {"Europe"},
     maxPoints |-> 80000, typicalCashPrice |-> 4000, expectedCpp10 |-> 45]
>>

\* Math.round of the quotient a / b (b > 0): halves go up
Round(a, b) == (2 * a + b) \div (2 * b)
Min2(a, b) == IF a < b THEN a ELSE b
Max2(a, b) == IF a > b THEN a ELSE b

\* Array.prototype.sort with a comparator that is a strict weak order:
\* Before(a, b) says the comparator puts a before b; equal elements keep
\* their order (the sort is stable)
StableSort(s, Before(_, _)) ==
    LET pos(i) == 1 + Cardinality({j \in DOMAIN s \ {i} :
                        \/ Before(s[j], s[i])
                        \/ (~Before(s[i], s[j]) /\ j < i)})
    IN  [k \in 1..Len(s) |-> s[CHOOSE i \in DOMAIN s : pos(i) = k]]

\* the route test of matchSweetSpots for one rule
routeMatches(spot, origin, destination) ==
    IF spot.origins # {} /\ spot.destinations # {}
    THEN origin \in spot.origins /\ destination \in spot.destinations
    ELSE IF spot.originRegions # {} /\ spot.destRegions # {}
    THEN /\ \E r \in spot.originRegions : matchesRegion(origin, r)
         /\ \E r \in spot.destRegions : matchesRegion(destination, r)
    ELSE IF spot.originRegions # {} /\ spot.destinations # {}
    THEN /\ \E r \in spot.originRegions : matchesRegion(origin, r)
         /\ destination \in spot.destinations
    ELSE IF spot.originRegions # {}
    THEN \E r \in spot.originRegions : matchesRegion(origin, r)
    ELSE FALSE

\* points > spot.maxPoints: the rule is skipped
OverThreshold_flipped(points, spot) == points < spot.maxPoints
OverThreshold(points, spot) == points > spot.maxPoints

\* the yield the cpp bonus looks at, in tenths: cashRef / (points / 100),
\* cashRef being the cash comparable or, without one, the rule's typical price
spotCashRef(spot, cashComparable) ==
    IF cashComparable # 0 THEN cashComparable ELSE spot.typicalCashPrice
CppBonus(spot, points, cashComparable) ==
    IF points > 0 /\ spotCashRef(spot, cashComparable) * 1000 >= spot.expectedCpp10 * points
    THEN 10
    ELSE IF points <= 0 /\ 0 >= spot.expectedCpp10 THEN 10 ELSE 0

\* getSweetSpotsForRoute: the rules shown as hints for a route
routeHint(spot, origin, destination) ==
    IF spot.origins # {} /\ spot.destinations # {}
    THEN origin \in spot.origins /\ destination \in spot.destinations
    ELSE IF spot.originRegions # {} /\ spot.destRegions # {}
    THEN /\ \E r \in spot.originRegions : matchesRegion(origin, r)
         /\ \E r \in spot.destRegions : matchesRegion(destination, r)
    ELSE IF spot.originRegions # {} /\ spot.destinations # {}
    THEN /\ \E r \in spot.originRegions : matchesRegion(origin, r)
         /\ destination \in spot.destinations
    ELSE FALSE
getSweetSpotsForRoute(origin, destination) ==
    LET Hint(spot) == routeHint(spot, origin, destination)
    IN  SelectSeq(SWEET_SPOTS, Hint)

\* the match record pushed for a rule that passed all tests
spotMatch(spot, points, cashComparable) ==
    LET matchScore == 70 + Round(20 * (spot.maxPoints - points), spot.maxPoints)
                         + CppBonus(spot, points, cashComparable)
    IN  [spot |-> spot,
         matchScore |-> Min2(100, matchScore),
         pointsSaved |-> spot.maxPoints - points,
         actualCpp10 |-> IF points > 0
                         THEN Round(spotCashRef(spot, cashComparable) * 1000, points)
                         ELSE 0]

\* matchSweetSpots; a cashComparable of 0 stands for null
matchSweetSpots(origin, destination, program, cabin, points, cashComparable) ==
    LET Passes(spot) == /\ spot.program = program
                        /\ spot.cabin = cabin
                        /\ routeMatches(spot, origin, destination)
                        /\ ~OverThreshold(points, spot)
        passed == SelectSeq(SWEET_SPOTS, Passes)
        matches == [i \in 1..Len(passed) |-> spotMatch(passed[i], points, cashComparable)]
        Before(a, b) == a.matchScore > b.matchScore
    IN  StableSort(matches, Before)

\* ------------------------------------------------------------------------
\* The transfer graph, findFundingPaths and canAfford.  Ratios are kept in
\* thousandths (ratio1000 = 1000 x ratio).
\* ------------------------------------------------------------------------
TRANSFER_PARTNERS == <<
    [from |-> "chase-ur", to |-> "UNITED", ratio1000 |-> 1000, transferTime |-> "instant"],
    [from |-> "chase-ur", to |-> "BRITISH_AIRWAYS", ratio1000 |-> 1000, transferTime |-> "instant"],
    [from |-> "chase-ur", to |-> "FLYING_BLUE", ratio1000 |-> 1000, transferTime |-> "instant"],
    [from |-> "chase-ur", to |-> "AEROPLAN", ratio1000 |-> 1000, transferTime |-> "instant"],
    [from |-> "chase-ur", to |-> "VIRGIN_ATLANTIC", ratio1000 |-> 1000, transferTime |-> "instant"],
    [from |-> "chase-ur", to |-> "SINGAPORE", ratio1000 |-> 1000, transferTime |-> "1-2 days"],
    [from |-> "chase-ur", to |-> "southwest", ratio1000 |-> 1000, transferTime |-> "instant"],
    [from |-> "chase-ur", to |-> "hyatt", ratio1000 |-> 1000, transferTime |-> "instant"],
    [from |-> "chase-ur", to |-> "marriott", ratio1000 |-> 1000, transferTime |-> "1-2 days"],
    [from |-> "chase-ur", to |-> "IHG", ratio1000 |-> 1000, transferTime |-> "1-2 days"],
    [from |-> "amex-mr", to |-> "DELTA", ratio1000 |-> 1000, transferTime |-> "instant"],
    [from |-> "amex-mr", to |-> "FLYING_BLUE", ratio1000 |-> 1000, transferTime |-> "instant"],
    [from |-> "amex-mr", to |-> "BRITISH_AIRWAYS", ratio1000 |-> 1000, transferTime |-> "instant"],
    [from |-> "amex-mr", to |-> "AEROPLAN", ratio1000 |-> 1000, transferTime |-> "instant"],
    [from |-> "amex-mr", to |-> "VIRGIN_ATLANTIC", ratio1000 |-> 1000, transferTime |-> "instant"],
    [from |-> "amex-mr", to |-> "SINGAPORE", ratio1000 |-> 1000, transferTime |-> "1-2 days"],
    [from |-> "amex-mr", to |-> "ANA", ratio1000 |-> 1000, transferTime |-> "1-2 days"],
    [from |-> "amex-mr", to |-> "CATHAY", ratio1000 |-> 1000, transferTime |-> "1-2 days"],
    [from |-> "amex-mr", to |-> "EMIRATES", ratio1000 |-> 1000, transferTime |-> "instant"],
    [from |-> "amex-mr", to |-> "QATAR", ratio1000 |-> 1000, transferTime |-> "1-2 days"],
    [from |-> "amex-mr", to |-> "ETIHAD", ratio1000 |-> 1000, transferTime |-> "instant"],
    [from |-> "amex-mr", to |-> "hilton", ratio1000 |-> 2000, transferTime |-> "instant"],
    [from |-> "amex-mr", to |-> "marriott", ratio1000 |-> 1000, transferTime |-> "1-2 days"],
    [from |-> "bilt", to |-> "UNITED", ratio1000 |-> 1000, transferTime |-> "instant"],
    [from |-> "bilt", to |-> "AMERICAN", ratio1000 |-> 1000, transferTime |-> "instant"],
    [from |-> "bilt", to |-> "ALASKA", ratio1000 |-> 1000, transferTime |-> "instant"],
    [from |-> "bilt", to |-> "FLYING_BLUE", ratio1000 |-> 1000, transferTime |-> "instant"],
    [from |-> "bilt", to |-> "AEROPLAN", ratio1000 |-> 1000, transferTime |-> "instant"],
    [from |-> "bilt", to |-> "BRITISH_AIRWAYS", ratio1000 |-> 1000, transferTime |-> "instant"],
    [from |-> "bilt", to |-> "VIRGIN_ATLANTIC", ratio1000 |-> 1000, transferTime |-> "instant"],
    [from |-> "bilt", to |-> "EMIRATES", ratio1000 |-> 1000, transferTime |-> "instant"],
    [from |-> "bilt", to |-> "TURKISH", ratio1000 |-> 1000, transferTime |-> "instant"],
    [from |-> "bilt", to |-> "hyatt", ratio1000 |-> 1000, transferTime |-> "instant"],
    [from |-> "bilt", to |-> "IHG", ratio1000 |-> 1000, transferTime |-> "instant"],
    [from |-> "marriott", to |-> "UNITED", ratio1000 |-> 333, transferTime |-> "3-5 days"],
    [from |-> "marriott", to |-> "ALASKA", ratio1000 |-> 333, transferTime |-> "3-5 days"],
    [from |-> "marriott", to |-> "DELTA", ratio1000 |-> 333, transferTime |-> "3-5 days"],
    [from |-> "marriott", to |-> "BRITISH_AIRWAYS", ratio1000 |-> 333, transferTime |-> "3-5 days"],
    [from |-> "marriott", to |-> "AEROPLAN", ratio1000 |-> 333, transferTime |-> "3-5 days"],
    [from |-> "marriott", to |-> "FLYING_BLUE", ratio1000 |-> 333, transferTime |-> "3-5 days"]
>>

findTransferPaths(toProgramKey) ==
    LET To(tp) == tp.to = toProgramKey
    IN  SelectSeq(TRANSFER_PARTNERS, To)

\* balances.find(b => b.programKey === key): the balance of the first entry
\* with that key, 0 when there is none (the code treats an absent and an
\* empty balance alike)
balanceOf(balances, key) ==
    IF \E i \in DOMAIN balances : balances[i].programKey = key
    THEN LET i == CHOOSE k \in DOMAIN balances :
                      /\ balances[k].programKey = key
                      /\ \A m \in 1..(k - 1) : balances[m].programKey # key
         IN  balances[i].balance
    ELSE 0

\* the comparator of the final sort of findFundingPaths
FundingBefore(a, b) ==
    IF a.transferTime = "already have" THEN TRUE
    ELSE IF b.transferTime = "already have" THEN FALSE
    ELSE IF a.covers /\ ~b.covers THEN TRUE
    ELSE IF ~a.covers /\ b.covers THEN FALSE
    ELSE a.milesReceived > b.milesReceived

directPath_strictCovers(toProgramKey, amountNeeded, direct) ==
    [source |-> toProgramKey, sourceBalance |-> direct, pointsToTransfer |-> 0,
     milesReceived |-> direct, ratio1000 |-> 1000, transferTime |-> "already have",
     covers |-> direct > amountNeeded]
directPath(toProgramKey, amountNeeded, direct) ==
    [source |-> toProgramKey, sourceBalance |-> direct, pointsToTransfer |-> 0,
     milesReceived |-> direct, ratio1000 |-> 1000, transferTime |-> "already have",
     covers |-> direct >= amountNeeded]

transferPath(tp, amountNeeded, direct, sourceBalance) ==
    LET milesFromTransfer == (sourceBalance * tp.ratio1000) \div 1000
        pointsNeededFromSource == (amountNeeded * 1000 + tp.ratio1000 - 1) \div tp.ratio1000
    IN  [source |-> tp.from, sourceBalance |-> sourceBalance,
         pointsToTransfer |-> Min2(pointsNeededFromSource, sourceBalance),
         milesReceived |-> Min2(milesFromTransfer, amountNeeded),
         ratio1000 |-> tp.ratio1000, transferTime |-> tp.transferTime,
         covers |-> \/ milesFromTransfer >= amountNeeded
                    \/ direct + milesFromTransfer >= amountNeeded]

findFundingPaths(toProgramKey, amountNeeded, balances) ==
    LET direct == balanceOf(balances, toProgramKey)
        first == IF direct > 0 THEN <<directPath(toProgramKey, amountNeeded, direct)>>
                 ELSE <<>>
        Funded(tp) == balanceOf(balances, tp.from) > 0
        funded == SelectSeq(findTransferPaths(toProgramKey), Funded)
        transfers == [i \in 1..Len(funded) |->
                        transferPath(funded[i], amountNeeded, direct,
                                     balanceOf(balances, funded[i].from))]
    IN  StableSort(first \o transfers, FundingBefore)

SumMiles_transfersOnly(paths) ==
    LET sum[i \in 0..Len(paths)] ==
            IF i = 0 THEN 0
            ELSE sum[i - 1] + (IF paths[i].transferTime = "already have" THEN 0
                               ELSE paths[i].milesReceived)
    IN  sum[Len(paths)]
SumMiles(paths) ==
    LET sum[i \in 0..Len(paths)] ==
            IF i = 0 THEN 0 ELSE sum[i - 1] + paths[i].milesReceived
    IN  sum[Len(paths)]

\* canAfford: affordable and bestPath
canAfford(toProgramKey, amountNeeded, balances) ==
    LET paths == findFundingPaths(toProgramKey, amountNeeded, balances)
    IN  IF paths = <<>> THEN [affordable |-> FALSE, bestPath |-> "none"]
        ELSE IF \E i \in DOMAIN paths :
                    paths[i].transferTime = "already have" /\ paths[i].covers
        THEN [affordable |-> TRUE, bestPath |-> "direct"]
        ELSE IF \E i \in DOMAIN paths :
                    paths[i].covers /\ paths[i].transferTime # "already have"
        THEN [affordable |-> TRUE, bestPath |-> "transfer"]
        ELSE IF SumMiles(paths) >= amountNeeded
        THEN [affordable |-> TRUE, bestPath |-> "combination"]
        ELSE [affordable |-> FALSE, bestPath |-> "insufficient"]

\* ------------------------------------------------------------------------
\* The value engine.  A flight record carries id, source, type, cabinClass,
\* stops, operatingAirlines, cashPrice, points, taxes, roameScore,
\* pointsProgram, origin, destination; 0 stands for a null number and ""
\* for a null string.  realCpp is kept in tenths (realCpp10).
\* ------------------------------------------------------------------------
rateCpp(cpp10, cabin) ==
    LET t == IF cabin = "premium_economy" THEN <<35, 25, 18, 12>>
             ELSE IF cabin = "business" THEN <<50, 35, 25, 15>>
             ELSE IF cabin = "first" THEN <<80, 50, 35, 20>>
             ELSE <<25, 18, 14, 10>>
    IN  IF cpp10 >= t[1] THEN "exceptional"
        ELSE IF cpp10 >= t[2] THEN "great"
        ELSE IF cpp10 >= t[3] THEN "good"
        ELSE IF cpp10 >= t[4] THEN "fair"
        ELSE "poor"

stopBucket(stops) == IF stops = 0 THEN 0 ELSE 1

\* f.type === "cash" && f.cashPrice && f.cashPrice > 0
PricedCash(f) == f.type = "cash" /\ f.cashPrice # 0 /\ f.cashPrice > 0

SumSeq(s) ==
    LET sum[i \in 0..Len(s)] == IF i = 0 THEN 0 ELSE sum[i - 1] + s[i]
    IN  sum[Len(s)]

NumBefore(a, b) == a < b

\* buildCashPriceLookup: the prices of the bucket cabin:bucket (the bucket
\* exists when the list is not empty) and its rounded average
bucketPrices(flights, cabin, bucket) ==
    LET In(f) == PricedCash(f) /\ f.cabinClass = cabin /\ stopBucket(f.stops) = bucket
        fs == SelectSeq(flights, In)
    IN  [i \in 1..Len(fs) |-> fs[i].cashPrice]

bucketAvgRounded(prices) == Round(SumSeq(prices), Len(prices))

CABIN_ESTIMATES(cabin) ==
    IF cabin = "economy" THEN 600
    ELSE IF cabin = "premium_economy" THEN 1200
    ELSE IF cabin = "business" THEN 4000
    ELSE IF cabin = "first" THEN 8000
    ELSE 600

\* tier 1 of findCashComparable: the prices of the exact matches
exactMatchPrices(award, cashFlights) ==
    LET Exact(f) == /\ PricedCash(f)
                    /\ f.cabinClass = award.cabinClass
                    /\ f.stops = award.stops
                    /\ f.operatingAirlines \cap award.operatingAirlines # {}
        fs == SelectSeq(cashFlights, Exact)
    IN  [i \in 1..Len(fs) |-> fs[i].cashPrice]

findCashComparable(award, cashFlights, flights) ==
    LET exact == exactMatchPrices(award, cashFlights)
        own == bucketPrices(flights, award.cabinClass, stopBucket(award.stops))
        b0 == bucketPrices(flights, award.cabinClass, 0)
        b1 == bucketPrices(flights, award.cabinClass, 1)
    IN  IF exact # <<>>
        THEN [price |-> StableSort(exact, NumBefore)[(Len(exact) \div 2) + 1],
              source |-> "exact-match"]
        ELSE IF own # <<>>
        THEN [price |-> bucketAvgRounded(own), source |-> "same-cabin"]
        ELSE IF b0 # <<>>
        THEN [price |-> bucketAvgRounded(b0), source |-> "same-cabin"]
        ELSE IF b1 # <<>>
        THEN [price |-> bucketAvgRounded(b1), source |-> "same-cabin"]
        ELSE [price |-> CABIN_ESTIMATES(award.cabinClass), source |-> "estimated"]

\* the cash branch of calculateValueScore: indexOf is 0-based and -1 for a
\* price that is not in the list
cashScore(flight, flights, score) ==
    LET InCabin(f) == /\ f.type = "cash" /\ f.cabinClass = flight.cabinClass
                      /\ f.cashPrice # 0
        fs == SelectSeq(flights, InCabin)
        prices == StableSort([i \in 1..Len(fs) |-> fs[i].cashPrice], NumBefore)
        indexOf == IF \E i \in DOMAIN prices : prices[i] = flight.cashPrice
                   THEN (CHOOSE i \in DOMAIN prices :
                            /\ prices[i] = flight.cashPrice
                            /\ \A j \in 1..(i - 1) : prices[j] # flight.cashPrice) - 1
                   ELSE -1
    IN  IF fs # <<>> THEN Round(50 * (Len(prices) - indexOf), Len(prices))
        ELSE score

Clamp_scaled(score) == Min2(1000, Max2(0, 10 * score))
Clamp(score) == Min2(100, Max2(0, score))

\* calculateValueScore; sweetSpot is <<>> or <<match>>
calculateValueScore(flight, realCppNull, cppRating, sweetSpot, affordable, roameScore, flights) ==
    LET cpp == IF realCppNull THEN 0
               ELSE IF cppRating = "exceptional" THEN 40
               ELSE IF cppRating = "great" THEN 32
               ELSE IF cppRating = "good" THEN 24
               ELSE IF cppRating = "fair" THEN 16
               ELSE 8
        sweet == IF sweetSpot # <<>> THEN Round(sweetSpot[1].matchScore, 5) ELSE 0
        afford == IF affordable THEN 15 ELSE 5
        quality == IF roameScore # 0 THEN Round(Min2(roameScore, 100) * 15, 100)
                   ELSE IF flight.cabinClass = "first" THEN 13
                   ELSE IF flight.cabinClass = "business" THEN 10
                   ELSE 0
        convenience == IF flight.stops = 0 THEN 10
                       ELSE IF flight.stops = 1 THEN 6 ELSE 2
        score == cpp + sweet + afford + quality + convenience
    IN  Clamp(IF flight.type = "cash" THEN cashScore(flight, flights, score)
              ELSE score)

\* realCpp of scoreFlights, in tenths
realCpp10Of_swapped(cashComparable, taxes, points) ==
    Round(1000 * (taxes - cashComparable), points)
realCpp10Of(cashComparable, taxes, points) ==
    Round(1000 * (cashComparable - taxes), points)

\* one element of scoreFlights' map
scoreOne(flight, flights, cashFlights, balances) ==
    LET isAward == flight.type = "award" /\ flight.points # 0 /\ flight.points > 0
        comparable == findCashComparable(flight, cashFlights, flights)
        cashComparable == IF isAward THEN comparable.price ELSE 0
        realCppNull == ~(isAward /\ cashComparable > 0)
        realCpp10 == IF realCppNull THEN 0
                     ELSE realCpp10Of(cashComparable, flight.taxes, flight.points)
        cppRating == IF realCppNull THEN "" ELSE rateCpp(realCpp10, flight.cabinClass)
        sweetSpots == IF isAward
                      THEN matchSweetSpots(flight.origin, flight.destination,
                                           flight.pointsProgram, flight.cabinClass,
                                           flight.points, cashComparable)
                      ELSE <<>>
        sweetSpotMatch == IF sweetSpots # <<>> THEN <<sweetSpots[1]>> ELSE <<>>
        affordable == IF isAward
                      THEN canAfford(flight.pointsProgram, flight.points, balances).affordable
                      ELSE TRUE
        paths == IF isAward
                 THEN findFundingPaths(flight.pointsProgram, flight.points, balances)
                 ELSE <<>>
    IN  [flight |-> flight,
         realCppNull |-> realCppNull,
         realCpp10 |-> realCpp10,
         cppRating |-> cppRating,
         cashComparable |-> cashComparable,
         cashSource |-> IF isAward THEN comparable.source ELSE "",
         sweetSpotMatch |-> sweetSpotMatch,
         fundingPath |-> IF paths # <<>> THEN <<paths[1]>> ELSE <<>>,
         canAfford |-> affordable,
         valueScore |-> calculateValueScore(flight, realCppNull, cppRating,
                                            sweetSpotMatch, affordable,
                                            flight.roameScore, flights)]

scoreFlights(flights, balances) ==
    LET IsCash(f) == f.type = "cash"
        cashFlights == SelectSeq(flights, IsCash)
    IN  [i \in 1..Len(flights) |-> scoreOne(flights[i], flights, cashFlights, balances)]

\* scored.sort((a, b) => b.valueScore - a.valueScore)
ScoreBefore(a, b) == a.valueScore > b.valueScore
sortScored(list) == StableSort(list, ScoreBefore)

\* generateRecommendations: rank and the id of the recommended flight
generateRecommendations(flights) ==
    LET Value(f) == /\ f.flight.type = "award" /\ ~f.realCppNull
                    /\ f.realCpp10 > 0 /\ f.canAfford
        CppBefore(a, b) == a.realCpp10 > b.realCpp10
        bestValueAwards == StableSort(SelectSeq(flights, Value), CppBefore)
        alreadyUsed == IF bestValueAwards # <<>> THEN bestValueAwards[1].flight.id ELSE ""
        Premium(f) == /\ f.flight.type = "award"
                      /\ f.flight.cabinClass \in {"business", "first"}
                      /\ f.canAfford
        NotUsed(f) == f.flight.id # alreadyUsed
        premiumFlights == SelectSeq(StableSort(SelectSeq(flights, Premium), ScoreBefore),
                                    NotUsed)
        Cash(f) == f.flight.type = "cash" /\ f.flight.cashPrice # 0 /\ f.flight.cashPrice > 0
        PriceBefore(a, b) == a.flight.cashPrice < b.flight.cashPrice
        cashFlights == StableSort(SelectSeq(flights, Cash), PriceBefore)
        bestAwardCpp10 == IF bestValueAwards # <<>> THEN bestValueAwards[1].realCpp10 ELSE 0
    IN  (IF bestValueAwards # <<>>
         THEN <<[rank |-> 1, id |-> bestValueAwards[1].flight.id,
                 best |-> bestValueAwards[1],
                 badgeText |-> "#1 BEST VALUE"]>> ELSE <<>>)
        \o (IF premiumFlights # <<>>
            THEN <<[rank |-> 2, id |-> premiumFlights[1].flight.id,
                    best |-> premiumFlights[1],
                    badgeText |-> "#2 BEST PRODUCT"]>> ELSE <<>>)
        \o (IF cashFlights # <<>>
            THEN <<[rank |-> 3, id |-> cashFlights[1].flight.id,
                    best |-> cashFlights[1],
                    badgeText |-> IF bestAwardCpp10 < 15 THEN "#3 CASH WINS"
                                  ELSE "#3 SAVE POINTS"]>> ELSE <<>>)

\* ------------------------------------------------------------------------
\* The end of runSearch on given adapter outputs: the then-callbacks merge
\* the Roame awards and the SerpAPI cash fares in either order, then the
\* value engine scores, the list is sorted and the recommendations are made.
\* ------------------------------------------------------------------------
AwardFares ==
    [id : {"roame-0"}, source : {"roame"}, type : {"award"},
     cabinClass : {"economy", "business"}, stops : 0..MaxStops,
     operatingAirlines : {{"AF"}, {"DL"}}, cashPrice : {0},
     points : {0, 20000, 50000}, taxes : {100, 700}, roameScore : {0, 100},
     pointsProgram : {"FLYING_BLUE", "UNITED"},
     origin : {"JFK"}, destination : {"CDG"}]

CashFare(i, cabin, stops, price) ==
    [id |-> IF i = 1 THEN "google-0" ELSE "google-1", source |-> "google",
     type |-> "cash", cabinClass |-> cabin, stops |-> stops,
     operatingAirlines |-> {"AF"}, cashPrice |-> price, points |-> 0,
     taxes |-> 0, roameScore |-> 0, pointsProgram |-> "",
     origin |-> "JFK", destination |-> "CDG"]

CashFares(i) ==
    {CashFare(i, cabin, stops, price) :
        cabin \in {"economy", "business"}, stops \in 0..MaxStops,
        price \in {0, 300, 600}}

\* what searchSerpApiGoogle returned: no, one or two cash fares
SerpOutputs ==
    {<<>>} \cup {<<a>> : a \in CashFares(1)}
           \cup {<<a, b>> : a \in CashFares(1), b \in CashFares(2)}

BalanceLists ==
    {<<>>,
     <<[programKey |-> "FLYING_BLUE", balance |-> 30000],
       [programKey |-> "chase-ur", balance |-> 30000]>>}

InitScore ==
    /\ OrchOff
    /\ PollOff
    /\ RaceOff
    /\ SpotsOff
    /\ FundOff
    /\ usageFile = [month |-> CurrentMonth, searches |-> 0]
    /\ usageAtStart = usageFile
    /\ scorePc = "merging"
    /\ scoreIn \in [roame : {<<a>> : a \in AwardFares}, serp : SerpOutputs,
                    balances : BalanceLists]
    /\ merged = <<>>
    /\ scored = <<>>
    /\ recommendations = <<>>

\* both then-callbacks have run, in the order the two tasks settled
ScoreMerge ==
    /\ scorePc = "merging"
    /\ \E roameFirst \in BOOLEAN :
          merged' = IF roameFirst THEN Merge(Merge(<<>>, scoreIn.roame), scoreIn.serp)
                    ELSE Merge(Merge(<<>>, scoreIn.serp), scoreIn.roame)
    /\ scorePc' = "settled"
    /\ UNCHANGED <<scoreIn, scored, recommendations>>
    /\ UNCHANGED <<orchVars, usageFile, pollVars, raceVars, spotVars, fundVars>>

\* runSearch after Promise.allSettled: scoreFlights, the sort, the
\* recommendations
ScoreRun ==
    /\ scorePc = "settled"
    /\ scored' = sortScored(scoreFlights(merged, scoreIn.balances))
    /\ recommendations' = generateRecommendations(scored')
    /\ scorePc' = "done"
    /\ UNCHANGED <<scoreIn, merged>>
    /\ UNCHANGED <<orchVars, usageFile, pollVars, raceVars, spotVars, fundVars>>

NextScore == ScoreMerge \/ ScoreRun
SpecScore == InitScore /\ [][NextScore]_vars

\* ------------------------------------------------------------------------
\* The same end of runSearch when the Roame adapter searched both classes:
\* searchRoameSource converts the ECON and the PREM result sets one after
\* the other, each with roameFaresToUnified.
\* ------------------------------------------------------------------------
\* `roame-${fare.mileageProgram}-${idx}`
RoameId(program, idx) ==
    IF program = "FLYING_BLUE"
    THEN (IF idx = 0 THEN "roame-FLYING_BLUE-0" ELSE "roame-FLYING_BLUE-1")
    ELSE (IF idx = 0 THEN "roame-UNITED-0" ELSE "roame-UNITED-1")

RoameFares ==
    [mileageProgram : {"FLYING_BLUE", "UNITED"}, awardPoints : {20000, 50000},
     roameScore : {0, 100}]

\* roameFaresToUnified with the fields the value engine reads; idx is the
\* position of the fare in the array of this call
unifiedFares(fares, cls) ==
    [i \in 1..Len(fares) |->
        [id |-> RoameId(fares[i].mileageProgram, i - 1), source |-> "roame",
         type |-> "award", cabinClass |-> guessCabinFromClasses(cls), stops |-> 0,
         operatingAirlines |-> {"AF"}, cashPrice |-> 0,
         points |-> fares[i].awardPoints, taxes |-> 100,
         roameScore |-> fares[i].roameScore,
         pointsProgram |-> fares[i].mileageProgram,
         origin |-> "JFK", destination |-> "CDG"]]

\* searchRoameSource with searchClass both: at most one ECON fare, at most
\* two PREM fares
RoameBothOutputs ==
    {unifiedFares(e, "ECON") \o unifiedFares(p, "PREM") :
        e \in {<<>>} \cup {<<a>> : a \in RoameFares},
        p \in {<<>>} \cup {<<a>> : a \in RoameFares}
                     \cup {<<a, b>> : a \in RoameFares, b \in RoameFares}}

InitRec ==
    /\ OrchOff
    /\ PollOff
    /\ RaceOff
    /\ SpotsOff
    /\ FundOff
    /\ usageFile = [month |-> CurrentMonth, searches |-> 0]
    /\ usageAtStart = usageFile
    /\ scorePc = "merging"
    /\ scoreIn \in [roame : RoameBothOutputs,
                     serp : {<<>>} \cup {<<a>> : a \in CashFares(1)},
                     balances : BalanceLists]
    /\ merged = <<>>
    /\ scored = <<>>
    /\ recommendations = <<>>

SpecRec == InitRec /\ [][NextScore]_vars

\* ------------------------------------------------------------------------
\* matchSweetSpots on its own arguments: the call scoreFlights makes for an
\* award fare, then the same fare with its points raised above the
\* threshold of one of the rules returned.
\* ------------------------------------------------------------------------
SpotOrigins == {"JFK", "LHR"}
SpotDestinations == {"CDG", "NRT", "IST", "DXB", "LAX"}
SpotPrograms == {SWEET_SPOTS[i].program : i \in DOMAIN SWEET_SPOTS} \cup {"DELTA"}
SpotCabins == {"economy", "business", "first"}
SpotPoints == {0, 7500, 20000, 22000, 50000, 55000, 120000}
SpotCash == {0, 600, 4000}
RaiseBy == {1, 10000}

InitSpots ==
    /\ OrchOff
    /\ PollOff
    /\ RaceOff
    /\ ScoreOff
    /\ FundOff
    /\ usageFile = [month |-> CurrentMonth, searches |-> 0]
    /\ usageAtStart = usageFile
    /\ spotPc = "input"
    /\ spotIn \in [origin : SpotOrigins, destination : SpotDestinations,
                    program : SpotPrograms, cabin : SpotCabins,
                    points : SpotPoints, cashComparable : SpotCash]
    /\ spotOut = <<>>
    /\ spotRaised = ""

matchOf(in) ==
    matchSweetSpots(in.origin, in.destination, in.program, in.cabin,
                    in.points, in.cashComparable)

SpotsMatch ==
    /\ spotPc = "input"
    /\ spotOut' = matchOf(spotIn)
    /\ spotPc' = "matched"
    /\ UNCHANGED <<spotIn, spotRaised>>
    /\ UNCHANGED <<orchVars, usageFile, pollVars, raceVars, scoreVars, fundVars>>

\* the same fare, its points now above the threshold of a returned rule
SpotsRaise ==
    /\ spotPc = "matched"
    /\ \E i \in DOMAIN spotOut, by \in RaiseBy :
          /\ spotIn' = [spotIn EXCEPT !.points = spotOut[i].spot.maxPoints + by]
          /\ spotRaised' = spotOut[i].spot.id
    /\ spotOut' = matchOf(spotIn')
    /\ spotPc' = "raised"
    /\ UNCHANGED <<orchVars, usageFile, pollVars, raceVars, scoreVars, fundVars>>

NextSpots == SpotsMatch \/ SpotsRaise
SpecSpots == InitSpots /\ [][NextSpots]_vars

\* ------------------------------------------------------------------------
\* findFundingPaths and canAfford on their own arguments: the two calls
\* scoreFlights makes for an award fare (the amount is the fare's points,
\* at least 1).
\* ------------------------------------------------------------------------
FundKeys == <<"chase-ur", "FLYING_BLUE", "marriott", "amex-mr">>
FundBalances == {0, 20000, 90000}
FundPrograms == {"FLYING_BLUE", "UNITED", "marriott", "hilton"}
FundAmounts == {1, 20000, 30000, 50000}
FundLists ==
    {<<>>} \cup
    {[i \in DOMAIN FundKeys |-> [programKey |-> FundKeys[i], balance |-> b[i]]] :
        b \in [DOMAIN FundKeys -> FundBalances]}

InitFund ==
    /\ OrchOff
    /\ PollOff
    /\ RaceOff
    /\ ScoreOff
    /\ SpotsOff
    /\ usageFile = [month |-> CurrentMonth, searches |-> 0]
    /\ usageAtStart = usageFile
    /\ fundPc = "input"
    /\ fundIn \in [toProgramKey : FundPrograms, amountNeeded : FundAmounts,
                    balances : FundLists]
    /\ fundOut = <<>>
    /\ fundAfford = [affordable |-> FALSE, bestPath |-> "none"]

FundFind ==
    /\ fundPc = "input"
    /\ fundAfford' = canAfford(fundIn.toProgramKey, fundIn.amountNeeded, fundIn.balances)
    /\ fundOut' = findFundingPaths(fundIn.toProgramKey, fundIn.amountNeeded,
                                   fundIn.balances)
    /\ fundPc' = "found"
    /\ UNCHANGED fundIn
    /\ UNCHANGED <<orchVars, usageFile, pollVars, raceVars, scoreVars, spotVars>>

NextFund == FundFind
SpecFund == InitFund /\ [][NextFund]_vars

\* ------------------------------------------------------------------------
\* What each adapter produces on its own, from the outcomes of its calls
\* ------------------------------------------------------------------------
Count(r, s) == Cardinality({i \in DOMAIN s : s[i] = r})
Range(s) == {s[i] : i \in DOMAIN s}
SameRecords(s, t) == \A r \in Range(s) \cup Range(t) : Count(r, s) = Count(r, t)

IsOk(o) == o.kind = "ok"

RoameAlone ==
    LET cls == RoameClasses(config.searchClass)
        part(i) == IF i <= Len(cls) /\ IsOk(calls.roame[i])
                   THEN roameFaresToUnified(calls.roame[i].n, cls[i]) ELSE <<>>
    IN  part(1) \o part(2)

FastAlone ==
    LET cabins == FastCabins(config.searchClass)
        p1 == IF IsOk(calls.fast[1]) THEN GoogleRecords(0, calls.fast[1].n, cabins[1]) ELSE <<>>
        p2 == IF Len(cabins) = 2 /\ IsOk(calls.fast[2])
              THEN GoogleRecords(Len(p1), calls.fast[2].n, cabins[2]) ELSE <<>>
    IN  p1 \o p2

SerpAlone ==
    LET classes == SerpClasses(config.searchClass)
        p1 == IF IsOk(calls.serp[1])
              THEN GoogleRecords(0, calls.serp[1].n, cabinNames(classes[1])) ELSE <<>>
        p2 == IF Len(classes) = 2 /\ IsOk(calls.serp[2])
              THEN GoogleRecords(Len(p1), calls.serp[2].n, cabinNames(classes[2])) ELSE <<>>
    IN  p1 \o p2

GoogleAlone == IF Len(FastAlone) > 0 THEN FastAlone ELSE SerpAlone

HiddenAlone == IF IsOk(calls.hidden) THEN HiddenRecords(calls.hidden.n) ELSE <<>>

AloneOf(s) == IF s = "roame" THEN RoameAlone
              ELSE IF s = "google" THEN GoogleAlone ELSE HiddenAlone

\* an adapter failed: it made calls, none returned, at least one threw
RoameFailed == /\ "roame" \in config.sources
               /\ \A i \in 1..Len(RoameClasses(config.searchClass)) : calls.roame[i].kind = "throw"
GoogleCalls == {calls.fast[1], calls.fast[2], calls.serp[1], calls.serp[2], calls.check}
GoogleFailed == /\ "google" \in config.sources
                /\ \A o \in GoogleCalls : ~IsOk(o)
                /\ \E o \in GoogleCalls : o.kind = "throw"
HiddenFailed == "hidden-city" \in config.sources /\ calls.hidden.kind = "throw"
FailedSources == {s \in config.sources :
                    \/ s = "roame" /\ RoameFailed
                    \/ s = "google" /\ GoogleFailed
                    \/ s = "hidden-city" /\ HiddenFailed}

FlightsOf(s) == SelectSeq(allFlights, LAMBDA f : f.source = s)

\* ------------------------------------------------------------------------
\* Claims
\* ------------------------------------------------------------------------

\* C1: whichever adapters fail, runSearch returns; every configured source
\* has a completion entry, a failed source has completion 0 and no flight in
\* the result, and every adapter that did not fail has exactly its records
\* in the result.
C1_FailuresIsolated ==
    pc = "done" =>
        /\ \A s \in config.sources : s \in DOMAIN completionPct
        /\ \A s \in FailedSources : completionPct[s] = 0 /\ FlightsOf(s) = <<>>
        /\ \A s \in KnownSources \ FailedSources :
              SameRecords(FlightsOf(s), IF s \in config.sources THEN AloneOf(s) ELSE <<>>)

C1_Witness ==
    /\ pc = "done"
    /\ "roame" \in FailedSources
    /\ "hidden-city" \in config.sources \ FailedSources
    /\ FlightsOf("google") # <<>>
    /\ FlightsOf("hidden-city") # <<>>

\* C2: once all adapters have settled the merged list holds exactly the
\* records each adapter produced on its own, each once, whatever the order
\* in which the adapters settled.
C2_MergedIsUnion ==
    pc \in {"scoring", "done"} =>
        SameRecords(allFlights,
                    (IF "roame" \in config.sources THEN RoameAlone ELSE <<>>)
                    \o (IF "google" \in config.sources THEN GoogleAlone ELSE <<>>)
                    \o (IF "hidden-city" \in config.sources THEN HiddenAlone ELSE <<>>))

\* all three sources contributed, and a google record was merged before a
\* Roame record although the Roame task was launched first
C2_Witness ==
    /\ pc = "scoring"
    /\ Len(allFlights) >= 4
    /\ \E i, j \in DOMAIN allFlights :
          i < j /\ allFlights[i].source = "google" /\ allFlights[j].source = "roame"
    /\ FlightsOf("hidden-city") # <<>>

\* C3: while a subprocess adapter (fast_flights, hidden-city) is running, a
\* peer with a request in flight can take its next step.
RoamePending == roame.state \in {"submit_inflight", "poll_inflight", "sleeping"}
RoameStep == RoameSubmitResponse \/ RoamePollResponse \/ RoameWake
C3_PeersNotBlocked ==
    (execRunning # "none" /\ RoamePending) => ENABLED RoameStep

\* what pollResults hands back when it returns on the response it has just got
ReturnedLastResponse ==
    /\ pollPc = "returned"
    /\ result = [fares |-> pollHist.lastResp.n,
                 percentCompleted |-> pollHist.lastResp.pct]

C5_WithinOneInterval ==
    pollPc = "returned" => elapsed <= MaxWaitS + PollIntervalS

\* C5, amended: no status request goes out once maxWaitMs has elapsed, and
\* pollResults returns at most one poll interval after its last response;
\* the time it takes is bounded by maxWaitMs plus the duration of the last
\* status request plus one poll interval.
C5_DeadlineBound ==
    /\ pollHist.issuedAt < MaxWaitS
    /\ pollPc = "returned" =>
          /\ elapsed <= pollHist.respondedAt + PollIntervalS
          /\ elapsed < MaxWaitS + MaxLatency + PollIntervalS

\* the loop is left on the deadline, later than maxWaitMs plus one interval
C5_Witness ==
    /\ pollPc = "returned"
    /\ pollHist.kind = "timeout"
    /\ elapsed > MaxWaitS + PollIntervalS
    /\ pollHist.issuedAt = MaxWaitS - 1

\* C6: a status response with percentCompleted >= 100 makes pollResults return
\* at once, with the fares and the percentage of that response: no further
\* request and no sleep follow, whatever staleCount is.
C6_CompleteReturnsAtOnce ==
    pollHist.lastResp.pct >= 100 =>
        /\ ReturnedLastResponse
        /\ pollHist.kind = "completed"
        /\ elapsed = pollHist.respondedAt

\* 100% arrives with the same fares as the three stale polls before it
C6_Witness ==
    /\ pollHist.kind = "completed"
    /\ staleCount = 3
    /\ lastPct = 40
    /\ lastFareCount = 1
    /\ result = [fares |-> 1, percentCompleted |-> 100]

\* C7: with the month's count at the cap when the search starts the SerpAPI
\* adapter issues no request, leaves the usage file alone and returns no
\* flights with completion 0, without rejecting.
AtCapAtStart == usageAtStart.month = CurrentMonth /\ usageAtStart.searches >= MONTHLY_LIMIT
C7_QuotaSkip ==
    AtCapAtStart =>
        /\ serpRequests = 0
        /\ usageFile = usageAtStart
        /\ google.state # "rejected"
        /\ google.serp = <<>>
        /\ (google.state = "settled" /\ google.fast = <<>>) => completionPct["google"] = 0

C7_Witness ==
    /\ AtCapAtStart
    /\ google.state = "settled"
    /\ calls.check.kind = "skip"

\* C8: the persisted count of the current month never exceeds MONTHLY_LIMIT.
C8_NeverOverCap ==
    usageFile.month = CurrentMonth => usageFile.searches <= MONTHLY_LIMIT

\* C9: every SerpAPI request is counted before it is issued: the persisted
\* count of the month is at least the count the search found plus the
\* requests this process has issued, failed ones included.
C9_CountedBeforeIssue ==
    CheckReset(usageFile).searches >= CheckReset(usageAtStart).searches + serpRequests

C9_Witness ==
    /\ serpRequests = 2
    /\ calls.serp[1].kind = "throw"
    /\ google.state = "serp_inflight"

\* the credential file is missing, or the expiry it declares has passed
CredsUnusable ==
    \/ ~credFile.exists
    \/ (credFile.sessionExpiresAt # 0 /\ NowMs > credFile.sessionExpiresAt)

\* C11: with the credential file missing or expired the Roame adapter fails
\* closed: no submit mutation and no poll request is ever in flight, every
\* searchRoame call throws, Roame contributes no flights with completion 0,
\* and every other configured adapter contributes the flights it produces.
C11_FailsClosed ==
    ("roame" \in config.sources /\ CredsUnusable) =>
        /\ roame.state \notin {"submit_inflight", "poll_inflight", "sleeping"}
        /\ \A i \in DOMAIN calls.roame : calls.roame[i].kind \in {"none", "throw"}
        /\ pc = "done" =>
              /\ FlightsOf("roame") = <<>>
              /\ completionPct["roame"] = 0
              /\ \A s \in config.sources \ {"roame"} :
                    /\ s \in DOMAIN completionPct
                    /\ SameRecords(FlightsOf(s), AloneOf(s))

\* an expired session: Roame gave nothing, google and hidden-city delivered
C11_Witness ==
    /\ pc = "done"
    /\ "roame" \in config.sources
    /\ credFile = [exists |-> TRUE, sessionExpiresAt |-> 1]
    /\ calls.roame[1].kind = "throw"
    /\ FlightsOf("google") # <<>>
    /\ FlightsOf("hidden-city") # <<>>

\* what runSearch returns when the then-callbacks run in the given order
MergedIn(roameFirst) ==
    IF roameFirst THEN scoreIn.roame \o scoreIn.serp ELSE scoreIn.serp \o scoreIn.roame
ScoredOn(list) == sortScored(scoreFlights(list, scoreIn.balances))

\* C12: for the same adapter outputs and balances, the sorted scored list
\* and the recommendations are the same whichever order the adapters
\* settled in.
C12_OrderIndependent ==
    scorePc = "done" =>
        \A roameFirst \in BOOLEAN :
            /\ scored = ScoredOn(MergedIn(roameFirst))
            /\ recommendations = generateRecommendations(ScoredOn(MergedIn(roameFirst)))

\* the scored awards that went through the cash cross-reference
ScoredAwards ==
    {i \in DOMAIN scored : scored[i].flight.type = "award" /\ scored[i].flight.points > 0}
ScoredCash == {i \in DOMAIN scored : scored[i].flight.type = "cash"}

\* C13: the valueScore of every scored flight, award or cash, lies in
\* 0..100, also with no balances, no cash comparables, zero points and
\* fares without a price.
C13_ScoreInRange ==
    \A i \in DOMAIN scored : scored[i].valueScore >= 0 /\ scored[i].valueScore <= 100

\* no balances, an award without points, a cash fare without a price that
\* reaches the top of the scale
C13_Witness ==
    /\ scorePc = "done"
    /\ scoreIn.balances = <<>>
    /\ \E i \in DOMAIN scored : scored[i].flight.type = "award" /\ scored[i].flight.points = 0
    /\ \E i \in ScoredCash : scored[i].flight.cashPrice = 0 /\ scored[i].valueScore = 100

\* C14: a cash flight never scores above 50, whatever else is in the result
\* set, a missing price included.
C14_CashAtMostFifty ==
    \A i \in ScoredCash : scored[i].valueScore <= 50

\* values the yield is compared over
YieldCash == {300, 450, 600, 4000}
YieldPoints == {20000, 30000, 50000, 100000}

\* C15, as stated: with taxes fixed, the yield of a scored award does not
\* fall when the cash comparable rises and does not rise when the points
\* rise, taxes above the cash comparable included.
C15_YieldMonotone ==
    \A i \in ScoredAwards :
        LET f == scored[i].flight
        IN  /\ \A c \in YieldCash :
                  c >= scored[i].cashComparable =>
                      realCpp10Of(c, f.taxes, f.points) >= scored[i].realCpp10
            /\ \A q \in YieldPoints :
                  q >= f.points =>
                      realCpp10Of(scored[i].cashComparable, f.taxes, q)
                          <= scored[i].realCpp10

\* C15, amended: the yield does not fall when the cash comparable rises; it
\* does not rise when the points rise as long as the taxes do not exceed the
\* cash comparable; when the taxes exceed the cash comparable the yield is
\* negative and does not fall (it moves towards zero) when the points rise.
C15_YieldMonotoneSigned ==
    \A i \in ScoredAwards :
        LET f == scored[i].flight
            cash == scored[i].cashComparable
        IN  /\ \A c \in YieldCash :
                  c >= cash => realCpp10Of(c, f.taxes, f.points) >= scored[i].realCpp10
            /\ \A q \in YieldPoints :
                  q >= f.points =>
                      IF f.taxes <= cash
                      THEN realCpp10Of(cash, f.taxes, q) <= scored[i].realCpp10
                      ELSE /\ scored[i].realCpp10 <= 0
                           /\ realCpp10Of(cash, f.taxes, q) >= scored[i].realCpp10

\* an award whose taxes exceed its cash comparable was scored
C15_Witness ==
    /\ scorePc = "done"
    /\ \E i \in ScoredAwards :
          /\ scored[i].flight.taxes > scored[i].cashComparable
          /\ scored[i].realCpp10 < 0
          /\ scored[i].flight.points = 20000

\* the priced cash fares of the merged list, by what they share with an award
PricedIn(cabin, bucket) ==
    {i \in DOMAIN merged : /\ merged[i].type = "cash" /\ merged[i].cashPrice > 0
                           /\ merged[i].cabinClass = cabin
                           /\ stopBucket(merged[i].stops) = bucket}
ExactOf(f) ==
    {i \in DOMAIN merged : /\ merged[i].type = "cash" /\ merged[i].cashPrice > 0
                           /\ merged[i].cabinClass = f.cabinClass
                           /\ merged[i].stops = f.stops
                           /\ merged[i].operatingAirlines \cap f.operatingAirlines # {}}
AnyPriced == {i \in DOMAIN merged : merged[i].type = "cash" /\ merged[i].cashPrice > 0}
AvgOf(cabin, bucket) == bucketAvgRounded(bucketPrices(merged, cabin, bucket))

\* C16: the comparable of a scored award comes from the first tier that has
\* data: an exact match, else the average of the award's own cabin and stop
\* bucket, else the same cabin's other stop bucket; the per-cabin constant
\* is used only when the flight set has no priced cash fare at all.
C16_FallbackOrder ==
    \A i \in ScoredAwards :
        LET f == scored[i].flight
            own == stopBucket(f.stops)
        IN  IF ExactOf(f) # {}
            THEN scored[i].cashComparable \in {merged[k].cashPrice : k \in ExactOf(f)}
            ELSE IF PricedIn(f.cabinClass, own) # {}
            THEN scored[i].cashComparable = AvgOf(f.cabinClass, own)
            ELSE IF PricedIn(f.cabinClass, 1 - own) # {}
            THEN scored[i].cashComparable = AvgOf(f.cabinClass, 1 - own)
            ELSE /\ scored[i].cashComparable = CABIN_ESTIMATES(f.cabinClass)
                 /\ AnyPriced = {}

\* C17: cashSource names the tier: exact-match for an exact match,
\* same-cabin for the award's own cabin and stop bucket, estimated for the
\* same cabin's other stop bucket and for the constant.
C17_SourceNamesTier ==
    \A i \in ScoredAwards :
        LET f == scored[i].flight
            own == stopBucket(f.stops)
        IN  scored[i].cashSource =
                IF ExactOf(f) # {} THEN "exact-match"
                ELSE IF PricedIn(f.cabinClass, own) # {} THEN "same-cabin"
                ELSE "estimated"

\* C18: matchSweetSpots returns no rule whose program or cabin differs from
\* the fare's or whose maxPoints is below the fare's points; and once the
\* fare's points have been raised above the maxPoints of a rule that had
\* been returned, that rule is no longer returned.
C18_OnlyRulesUnderThreshold ==
    /\ spotPc \in {"matched", "raised"} =>
          \A i \in DOMAIN spotOut :
              /\ spotOut[i].spot.program = spotIn.program
              /\ spotOut[i].spot.cabin = spotIn.cabin
              /\ spotOut[i].spot.maxPoints >= spotIn.points
    /\ spotPc = "raised" =>
          \A i \in DOMAIN spotOut : spotOut[i].spot.id # spotRaised

\* the points were raised above one returned rule and another rule of the
\* same program and cabin is still returned
C18_Witness ==
    /\ spotPc = "raised"
    /\ spotRaised # ""
    /\ spotOut # <<>>

\* C19: the matchScore of the rule attached to a scored award is 70 + the
\* under-threshold bonus round(20 x (maxPoints - points) / maxPoints) + 10
\* exactly when the fare's realized yield
\* (cash comparable - taxes) / (points / 100) is at least the rule's
\* expectedCpp, capped at 100.
C19_BonusFollowsRealizedYield ==
    \A i \in ScoredAwards :
        scored[i].sweetSpotMatch # <<>> =>
            LET m == scored[i].sweetSpotMatch[1]
                f == scored[i].flight
                meets == (scored[i].cashComparable - f.taxes) * 1000
                             >= m.spot.expectedCpp10 * f.points
            IN  m.matchScore =
                    Min2(100, 70 + Round(20 * (m.spot.maxPoints - f.points),
                                         m.spot.maxPoints)
                                 + (IF meets THEN 10 ELSE 0))

\* C20: when the direct balance in the target program is at least the
\* amount needed, the first path returned by findFundingPaths is the
\* direct-balance path and its covers flag is true.
C20_DirectFirst ==
    (/\ fundPc = "found"
     /\ balanceOf(fundIn.balances, fundIn.toProgramKey) >= fundIn.amountNeeded) =>
        /\ fundOut # <<>>
        /\ fundOut[1].source = fundIn.toProgramKey
        /\ fundOut[1].transferTime = "already have"
        /\ fundOut[1].pointsToTransfer = 0
        /\ fundOut[1].covers

\* the direct balance suffices and a transfer would cover the amount too,
\* with more miles in the source than in the target program
C20_Witness ==
    /\ fundPc = "found"
    /\ balanceOf(fundIn.balances, fundIn.toProgramKey) >= fundIn.amountNeeded
    /\ \E i \in DOMAIN fundOut :
          /\ i > 1
          /\ fundOut[i].covers
          /\ fundOut[i].sourceBalance > fundOut[1].sourceBalance

\* floor(sourceBalance x ratio): the miles a path's source can deliver
MilesReceivable(path) == (path.sourceBalance * path.ratio1000) \div 1000

\* C21: the list returned by findFundingPaths is ordered: the direct-balance
\* path first, then every covering path before every non-covering one, and
\* within the same covers group by descending floor(sourceBalance x ratio).
C21_RankedByReceivable ==
    fundPc = "found" =>
        \A i, j \in DOMAIN fundOut :
            i < j =>
                /\ fundOut[j].transferTime # "already have"
                /\ fundOut[i].transferTime # "already have" =>
                      /\ fundOut[j].covers => fundOut[i].covers
                      /\ fundOut[i].covers = fundOut[j].covers =>
                            MilesReceivable(fundOut[i]) >= MilesReceivable(fundOut[j])

\* the direct balance of the target program, and the miles obtainable from
\* every funded source with an edge to it
DirectOf(in) == balanceOf(in.balances, in.toProgramKey)
ObtainableOf(in) ==
    LET edges == findTransferPaths(in.toProgramKey)
        sum[i \in 0..Len(edges)] ==
            IF i = 0 THEN 0
            ELSE sum[i - 1]
                 + (Max2(0, balanceOf(in.balances, edges[i].from)) * edges[i].ratio1000)
                       \div 1000
    IN  sum[Len(edges)]
SomeTransferReaches(in) ==
    \E i \in DOMAIN TRANSFER_PARTNERS :
        LET tp == TRANSFER_PARTNERS[i]
            sb == balanceOf(in.balances, tp.from)
        IN  /\ tp.to = in.toProgramKey
            /\ sb > 0
            /\ DirectOf(in) + (sb * tp.ratio1000) \div 1000 >= in.amountNeeded

\* C22: for an amount of at least 1, canAfford answers direct exactly when
\* the direct balance reaches the amount, transfer exactly when it does not
\* but one transfer alone or with the direct balance does, combination
\* exactly when neither does but direct balance plus all obtainable miles
\* do, and not affordable otherwise; affordable is true exactly when direct
\* balance plus all obtainable miles reach the amount.
C22_AffordClasses ==
    (fundPc = "found" /\ fundIn.amountNeeded >= 1) =>
        LET isDirect == DirectOf(fundIn) >= fundIn.amountNeeded
            isTransfer == ~isDirect /\ SomeTransferReaches(fundIn)
            total == DirectOf(fundIn) + ObtainableOf(fundIn)
            isCombination == ~isDirect /\ ~isTransfer /\ total >= fundIn.amountNeeded
        IN  /\ fundAfford.bestPath = "direct" <=> isDirect
            /\ fundAfford.bestPath = "transfer" <=> isTransfer
            /\ fundAfford.bestPath = "combination" <=> isCombination
            /\ fundAfford.bestPath \in {"none", "insufficient"}
                    <=> (~isDirect /\ ~isTransfer /\ ~isCombination)
            /\ fundAfford.affordable <=> total >= fundIn.amountNeeded
            /\ fundAfford.affordable <=> fundAfford.bestPath \in {"direct", "transfer", "combination"}

\* only the direct balance and several transfers together reach the amount
C22_Witness ==
    /\ fundPc = "found"
    /\ fundAfford.bestPath = "combination"
    /\ DirectOf(fundIn) > 0
    /\ \A i \in DOMAIN fundOut : ~fundOut[i].covers

\* C23: every record of the merged list satisfies the kind invariant: an
\* award has its program populated and no cash price (its points are a
\* number, 0 included), a cash record has a cash price and neither points
\* nor program, whatever the sources returned (itineraries without a price
\* included).
C23_KindInvariant ==
    \A i \in DOMAIN merged :
        /\ merged[i].type = "award" =>
              merged[i].pointsProgram # "" /\ merged[i].cashPrice = 0
        /\ merged[i].type = "cash" =>
              /\ merged[i].cashPrice # 0
              /\ merged[i].points = 0
              /\ merged[i].pointsProgram = ""

\* C28: all records of the merged flight list of one search have pairwise
\* distinct identifiers, for every searchClass and combination of sources.
C28_DistinctIds ==
    \A i, j \in DOMAIN allFlights :
        i # j => allFlights[i].id # allFlights[j].id

\* what canAfford answered for a scored award
AffordOf(f) == canAfford(f.pointsProgram, f.points, scoreIn.balances)
\* some balance can fund the program: a direct one or a transfer source
Fundable(f) ==
    \/ balanceOf(scoreIn.balances, f.pointsProgram) > 0
    \/ \E i \in DOMAIN TRANSFER_PARTNERS :
          /\ TRANSFER_PARTNERS[i].to = f.pointsProgram
          /\ balanceOf(scoreIn.balances, TRANSFER_PARTNERS[i].from) > 0

\* C30: a scored award that canAfford reports affordable through a single
\* source (bestPath direct or transfer) carries a fundingPath whose covers
\* flag is true; and the fundingPath is null exactly when there is neither
\* a direct balance nor a funded transfer source.
C30_FundingPathCovers ==
    \A i \in ScoredAwards :
        LET f == scored[i].flight
        IN  /\ AffordOf(f).bestPath \in {"direct", "transfer"} =>
                  /\ scored[i].fundingPath # <<>>
                  /\ scored[i].fundingPath[1].covers
            /\ scored[i].fundingPath = <<>> <=> ~Fundable(f)

\* the recommendation of a rank, as a set (empty when there is none)
RankOf(r) == {recommendations[k].best : k \in {j \in DOMAIN recommendations :
                                                   recommendations[j].rank = r}}
AffordableAwards ==
    {scored[i] : i \in {j \in DOMAIN scored : /\ scored[j].flight.type = "award"
                                              /\ scored[j].canAfford}}
AffordablePremium ==
    {f \in AffordableAwards : f.flight.cabinClass \in {"business", "first"}}
\* the yield of a scored fare, a fare without a yield ranking below all
YieldAtMost(f, g) == f.realCppNull \/ (~g.realCppNull /\ f.realCpp10 <= g.realCpp10)

\* C24: rank 1, when present, is an affordable award whose yield is the
\* highest among all affordable awards; rank 2, when present, is an
\* affordable business/first award, a different record from rank 1, whose
\* value score is the highest among all affordable business/first awards
\* other than the rank-1 record.
C24_RanksAreBest ==
    scorePc = "done" =>
        /\ \A b \in RankOf(1) :
              /\ b \in AffordableAwards
              /\ \A f \in AffordableAwards : YieldAtMost(f, b)
        /\ \A b \in RankOf(2) :
              /\ b \in AffordablePremium
              /\ b \notin RankOf(1)
              /\ \A f \in AffordablePremium \ RankOf(1) :
                    f.valueScore <= b.valueScore

\* the last response has been compared and counted by pollResults
Counted == pollHist.runLen >= 1 /\ pollHist.kind # "completed"

C26_DeadlineBetweenPolls ==
    /\ pollHist.issuedAt < MaxWaitS
    /\ pollPc = "inflight" => elapsed = pollHist.issuedAt
    /\ pollHist.kind = "timeout" =>
          /\ pollPc = "returned"
          /\ elapsed >= MaxWaitS
          /\ elapsed = pollHist.respondedAt + PollIntervalS
          /\ pollHist.respondedAt >= pollHist.issuedAt
    /\ pollPc = "returned" =>
          result.percentCompleted = pollHist.lastResp.pct

\* the deadline passed while the last request was in flight; its response
\* (40%) was awaited and is what the return reports
C26_Witness ==
    /\ pollHist.kind = "timeout"
    /\ pollHist.issuedAt < MaxWaitS
    /\ pollHist.respondedAt > MaxWaitS
    /\ result.percentCompleted = 40

\* scoring has started
Scoring == pc \in {"scoring", "done"}

\* C27: runSearch starts scoring only after every launched adapter has
\* settled and its merge step has run: when scoring starts every
\* configured known source has a completion entry and no callback is
\* pending, and from then on nothing is appended to the merged list and no
\* completion entry is written.
C27_ScoringAfterAllSettled ==
    /\ [](Scoring =>
            /\ \A s \in config.sources \cap KnownSources : s \in DOMAIN completionPct
            /\ "roame" \in config.sources => roame.state = "settled"
            /\ "google" \in config.sources => google.state = "settled"
            /\ "hidden-city" \in config.sources => hidden.state = "settled"
            /\ microQ = <<>>
            /\ execRunning = "none")
    /\ [][Scoring => (allFlights' = allFlights /\ completionPct' = completionPct)]_vars

\* scoring starts with all three sources configured and their records merged
C27_Witness ==
    /\ pc = "scoring"
    /\ config.sources = KnownSources
    /\ DOMAIN completionPct = KnownSources
    /\ {allFlights[i].source : i \in DOMAIN allFlights} = KnownSources

\* the rules of the hint list for the route of the call
HintsOf(in) ==
    {getSweetSpotsForRoute(in.origin, in.destination)[i] :
        i \in DOMAIN getSweetSpotsForRoute(in.origin, in.destination)}

\* C29: every rule matchSweetSpots returns for a fare on a route is in
\* getSweetSpotsForRoute of that route, and every rule of
\* getSweetSpotsForRoute is returned for some fare on that route (the
\* rule's program and cabin, points at its threshold).
C29_HintsAgreeWithMatcher ==
    spotPc \in {"matched", "raised"} =>
        /\ \A i \in DOMAIN spotOut : spotOut[i].spot \in HintsOf(spotIn)
        /\ \A h \in HintsOf(spotIn) :
              \E i \in DOMAIN matchSweetSpots(spotIn.origin, spotIn.destination,
                                               h.program, h.cabin, h.maxPoints, 0) :
                  matchSweetSpots(spotIn.origin, spotIn.destination,
                                  h.program, h.cabin, h.maxPoints, 0)[i].spot = h

\* requests issued by the two processes
RaceRequests == rhist[1].requests + rhist[2].requests

\* C10: the check and the increment of the quota are atomic across
\* processes: when concurrent searches have finished, the persisted count
\* has grown by exactly the number of requests issued (no update is lost),
\* and no process has issued a request after the other's increments had
\* brought the count to the cap.
C10_AtomicQuota ==
    /\ (\A p \in Procs : rpc[p] = "done") =>
          CheckReset(usageFile).searches =
              CheckReset(usageAtStart).searches + RaceRequests
    /\ \A p \in Procs : ~rhist[p].overCap

================================================================
